---- MODULE Spec2Model ----
(***************************************************************************)
(* The ERC20 transfer collector of src/src/collect.js as a state machine.  *)
(*                                                                         *)
(* One run of the script: the chain id is read from the command line and   *)
(* validated, then `main`: table setup, opening the stream, then the loop  *)
(* that receives a page, decodes its logs, appends a row per decoded log   *)
(* to transferBatch, flushes the buffer to ClickHouse once it holds        *)
(* BATCH_SIZE rows or more, and moves query.fromBlock to the page's        *)
(* nextBlock; at the end-of-stream sentinel the remaining rows are         *)
(* inserted and the connection is closed.  Every `await` of the code is a  *)
(* step boundary; the code between two awaits is one atomic action.        *)
(*                                                                         *)
(* The event source and the sink are the environment: the source delivers  *)
(* any page (any number of logs, well-formed or not, of any contract, in   *)
(* ascending (block, log index) order, with or without block entries, with *)
(* any reported next position), the sentinel, or an error; an insert       *)
(* succeeds or fails.                                                      *)
(*                                                                         *)
(* Spec is the collector with that environment.  SpecCli is the command    *)
(* line with any argument and a source that has nothing to deliver,        *)
(* SpecValue the runs over transfers of values up to 2^256 - 1, SpecE2E    *)
(* the two-page end-to-end scenario.                                       *)
(***************************************************************************)
EXTENDS Integers, Sequences, FiniteSets, TLC

\* ------------------------------------------------------------- bounds
\* The capacity of the buffer; 1000 in the code (collect.js:162), scaled
\* down so that full and overfull buffers are reached with a few logs.
BATCH_SIZE == 2
\* Logs the source emits over the whole run (a page holds any number of
\* them), and pages it delivers before the sentinel or an error.
MaxLogs == 3
MaxPages == 2

\* The greatest length of the command-line argument.
MaxArgLen == 3

\* The contracts whose logs the source emits (LogField.Address).
Contracts == {"0xa", "0xb"}

VARIABLES
    pc,                 \* where main is suspended
    fromBlock,          \* query.fromBlock, the tracked cursor
    totalEvents,        \* let totalEvents
    totalTransferValue, \* let totalTransferValue
    transferBatch,      \* let transferBatch
    res,                \* const res = await stream.recv(): the page in hand
    sink,               \* the calls clickhouse.insert has received, in order
    errorLog,           \* the error lines written to the console
    exitCode,           \* <<>> while running, <<c>> once the process ended
    fault,              \* the error main was rejected with, "none" if none
    srcNext,            \* source: the first block the next page covers
    pages,              \* source: pages delivered so far
    delivered,          \* source: every raw log delivered so far, in order
    argv,               \* process.argv[2], a string (empty when absent)
    CHAIN_ID,           \* const CHAIN_ID (0 until it is computed)
    ddl,                \* the calls clickhouse.command has received, in order
    inflight,           \* the calls awaited and not yet settled
    store,              \* ClickHouse: whether the database exists, and the
                        \* rows of every table that exists
    \* populate_token_cache.js
    tokenPc,            \* where the script is suspended
    metadataFiles,      \* const metadataFiles: the listing of .cache
    fileIndex,          \* the file main's loop is at (0 before the first)
    entryIndex,         \* entries of that file the inner loop has taken
    tokenBatch,         \* const tokenBatch
    processedCount,     \* let processedCount
    tokenSink,          \* the calls clickhouse.insert has received, in order
    fileResults,        \* what processMetadataFile returned, file by file
    totalTokens,        \* let totalTokens
    processedFiles,     \* let processedFiles
    createdTables,      \* const createdTables
    \* scripts/cleanup_network_data.js
    cleanupPc,          \* where cleanupNetworkData is suspended
    cleanupChain,       \* const CHAIN_ID of the script
    cleanupCalls,       \* the queries and commands ClickHouse has received
    cleanupSuccess,     \* let cleanupSuccess
    cleanupExit         \* <<>> while running, <<c>> once the process ended

\* The state of the collector, of the token cache loader and of the cleanup
\* script; the three are separate processes that share ClickHouse.
collectorVars == <<pc, fromBlock, totalEvents, totalTransferValue,
                   transferBatch, res, sink, errorLog, exitCode, fault,
                   srcNext, pages, delivered, argv, CHAIN_ID, ddl, inflight>>

tokenVars == <<tokenPc, metadataFiles, fileIndex, entryIndex, tokenBatch,
               processedCount, tokenSink, fileResults, totalTokens,
               processedFiles, createdTables>>

cleanupVars == <<cleanupPc, cleanupChain, cleanupCalls, cleanupSuccess,
                 cleanupExit>>

scriptVars == <<tokenVars, cleanupVars>>

vars == <<pc, fromBlock, totalEvents, totalTransferValue, transferBatch, res,
          sink, errorLog, exitCode, fault, srcNext, pages, delivered,
          argv, CHAIN_ID, ddl, inflight, store, tokenVars, cleanupVars>>

\* ------------------------------------------------------------ helpers
Null == [tag |-> "null"]

Last(s) == s[Len(s)]

RECURSIVE Flatten(_)
Flatten(ss) == IF ss = <<>> THEN <<>> ELSE Head(ss) \o Flatten(Tail(ss))

RECURSIVE SumSeq(_)
SumSeq(s) == IF s = <<>> THEN 0 ELSE Head(s) + SumSeq(Tail(s))

IsPrefix(s, t) == Len(s) <= Len(t) /\ SubSeq(t, 1, Len(s)) = s

\* ------------------------------------------------- the source's pages
\* A log as the source describes it: decodable or not, its contract, and
\* whether it opens the next block or follows the previous log in its block.
\* (The contract of a log that does not decode is never read.)
LogShapes ==
    {[good |-> TRUE, address |-> c, newBlock |-> b] :
        c \in Contracts, b \in BOOLEAN}
    \cup {[good |-> FALSE, address |-> "0xa", newBlock |-> b] : b \in BOOLEAN}

\* The pages of at most `room` logs; the first log of a page opens a block.
PageShapes(room) ==
    UNION {{shape \in [1..n -> LogShapes] : n > 0 => shape[1].newBlock} :
              n \in 0..room}

\* The block of the k-th log of a page that starts at block `first`.
BlockOf(shape, first, k) ==
    first + Cardinality({j \in 2..k : shape[j].newBlock})

\* The index of the k-th log within its block.
LogIndexOf(shape, k) ==
    LET opens == {j \in 2..k : shape[j].newBlock}
        start == IF opens = {} THEN 1
                 ELSE CHOOSE j \in opens : \A i \in opens : i <= j
    IN  k - start

\* The decoder's result for a Transfer log: its indexed and body values.
\* The body value is a BigInt: its base-256 digits, most significant first,
\* without leading zeros (so <<>> is 0n).
DecodedOf(id) ==
    [tag |-> "log", indexed |-> <<id, id + 1>>, body |-> <<<<100 + id>>>>]

\* The k-th raw log of a page: the fields of the field selection, the block
\* that contains it, and what decoder.decodeLogs returns for it.
RawLog(shape, first, k, id) ==
    [address         |-> shape[k].address,
     logIndex        |-> LogIndexOf(shape, k),
     transactionHash |-> <<"tx", id>>,
     block           |-> BlockOf(shape, first, k),
     decoded         |-> IF shape[k].good THEN DecodedOf(id) ELSE Null]

BlockEntry(n) == [number |-> n, timestamp |-> 1000 + n]

\* res: { data: { logs, blocks }, nextBlock }.
Page(shape, first, firstId, withBlocks, nextBlock) ==
    LET logs == [k \in 1..Len(shape) |->
                    RawLog(shape, first, k, firstId + k - 1)]
        blockNumbers == {logs[k].block : k \in 1..Len(logs)}
        RECURSIVE Asc(_, _)
        Asc(n, todo) ==
            IF todo = {} THEN <<>>
            ELSE IF n \in todo
                 THEN <<BlockEntry(n)>> \o Asc(n + 1, todo \ {n})
                 ELSE Asc(n + 1, todo)
    IN  [logs      |-> logs,
         blocks    |-> IF withBlocks THEN Asc(first, blockNumbers) ELSE <<>>,
         nextBlock |-> nextBlock]

\* The position after the last block a page covers.
HonestNext(shape, first) ==
    IF Len(shape) = 0 THEN first + 1
    ELSE BlockOf(shape, first, Len(shape)) + 1

\* The positions a page may report: the honest one, none (0, which the code
\* reads as absent), or the position just before the tracked cursor.
ReportedPositions(honest, cursor) ==
    {honest, 0} \cup {n \in 1..cursor : n = cursor - 1}

\* ------------------------------------------------------ the collector
\* const CHAIN_CONFIG: the supported chain ids and their names.
CHAIN_CONFIG ==
    (1 :> "Ethereum") @@ (10 :> "Optimism") @@ (56 :> "BSC") @@
    (130 :> "Unichain") @@ (137 :> "Polygon") @@ (480 :> "World Chain") @@
    (1868 :> "Lightlink") @@ (7777777 :> "Zora") @@ (8453 :> "Base") @@
    (42161 :> "Arbitrum") @@ (43114 :> "Avalanche") @@ (81457 :> "Blast")

\* The chain used when the argument gives no number.
DefaultChain == 130

DecimalDigits == <<"0", "1", "2", "3", "4", "5", "6", "7", "8", "9">>

IsDigit(c) == \E d \in 1..10 : DecimalDigits[d] = c

DigitValue(c) == (CHOOSE d \in 1..10 : DecimalDigits[d] = c) - 1

\* The number read from the decimal digits of s starting at position i, up
\* to the first character that is not a digit.
RECURSIVE ParseDigits(_, _, _)
ParseDigits(s, i, acc) ==
    IF i > Len(s) \/ ~IsDigit(s[i]) THEN acc
    ELSE ParseDigits(s, i + 1, acc * 10 + DigitValue(s[i]))

\* parseInt(s) of JavaScript on a string of digits, letters and "-": an
\* optional sign, then the longest run of digits; what follows is ignored.
\* <<>> stands for NaN (no digit where the number should start).
ParseInt(s) ==
    LET neg   == Len(s) > 0 /\ s[1] = "-"
        start == IF neg THEN 2 ELSE 1
    IN  IF start > Len(s) \/ ~IsDigit(s[start]) THEN <<>>
        ELSE <<(IF neg THEN -1 ELSE 1) * ParseDigits(s, start, 0)>>

\* parseInt(process.argv[2]) || 130: NaN and 0 are falsy.
ChainIdOf(arg) ==
    LET n == ParseInt(arg)
    IN  IF n = <<>> \/ n[1] = 0 THEN DefaultChain ELSE n[1]

\* String(n) for a non-negative integer: the text under which an id is a
\* key of CHAIN_CONFIG (Object.keys).
RECURSIVE NumberToString(_)
NumberToString(n) ==
    IF n < 10 THEN <<DecimalDigits[n + 1]>>
    ELSE Append(NumberToString(n \div 10), DecimalDigits[(n % 10) + 1])

\* The argument is, as written, one of the keys of CHAIN_CONFIG.
IsWhitelisted(arg) ==
    \E id \in DOMAIN CHAIN_CONFIG : arg = NumberToString(id)

\* `erc20_transfers_${CHAIN_ID}`
TableName(chainId) == <<"erc20_transfers_", chainId>>

\* Mutant: the table is not dropped, only created if it is missing.
SetupQueries_NoDrop ==
    <<"CREATE DATABASE IF NOT EXISTS", "CREATE TABLE IF NOT EXISTS",
      "CREATE TABLE IF NOT EXISTS">>

\* The statements initializeDatabase sends, in order.
SetupQueries ==
    <<"CREATE DATABASE IF NOT EXISTS", "DROP TABLE IF EXISTS",
      "CREATE TABLE IF NOT EXISTS">>

\* The k-th command of initializeDatabase and whether it succeeded; the
\* first names the database, the others the chain's table.
SetupCommand(k, chainId, ok) ==
    [query  |-> SetupQueries[k],
     target |-> IF k = 1 THEN <<"token_intelligence">>
                ELSE <<"token_intelligence">> \o TableName(chainId),
     ok     |-> ok]

\* A BigInt without its leading zero digits.
RECURSIVE Normalize(_)
Normalize(v) ==
    IF v # <<>> /\ Head(v) = 0 THEN Normalize(Tail(v)) ELSE v

\* a + b of two BigInts: digit by digit from the right, with carry.
RECURSIVE BigAddFrom(_, _, _, _, _)
BigAddFrom(a, b, i, carry, out) ==
    IF i >= Len(a) /\ i >= Len(b)
    THEN IF carry = 0 THEN out ELSE <<carry>> \o out
    ELSE LET x   == IF i < Len(a) THEN a[Len(a) - i] ELSE 0
             y   == IF i < Len(b) THEN b[Len(b) - i] ELSE 0
             sum == x + y + carry
         IN  BigAddFrom(a, b, i + 1, sum \div 256, <<sum % 256>> \o out)

BigAdd(a, b) == BigAddFrom(a, b, 0, 0, <<>>)

\* The quotient and the remainder of a BigInt divided by a small number
\* m: long division from the most significant digit.
RECURSIVE BigDivSmallFrom(_, _, _, _, _)
BigDivSmallFrom(v, m, i, rem, quot) ==
    IF i > Len(v) THEN [quot |-> Normalize(quot), rem |-> rem]
    ELSE LET cur == rem * 256 + v[i]
         IN  BigDivSmallFrom(v, m, i + 1, cur % m, Append(quot, cur \div m))

\* The last `width` decimal digits of n, with leading zeros.
RECURSIVE PaddedDigits(_, _)
PaddedDigits(n, width) ==
    IF width = 0 THEN <<>>
    ELSE Append(PaddedDigits(n \div 10, width - 1),
                DecimalDigits[(n % 10) + 1])

\* The decimal digits of a positive BigInt, six at a time from the right.
RECURSIVE BigDecimalDigits(_)
BigDecimalDigits(v) ==
    LET d == BigDivSmallFrom(v, 1000000, 1, 0, <<>>)
    IN  IF d.quot = <<>> THEN NumberToString(d.rem)
        ELSE BigDecimalDigits(d.quot) \o PaddedDigits(d.rem, 6)

\* Mutant: the value is turned into text through its low 64 bits.
BigIntToString_Low64(v) ==
    LET low == Normalize(IF Len(v) > 8 THEN SubSeq(v, Len(v) - 7, Len(v))
                         ELSE v)
    IN  IF low = <<>> THEN <<"0">> ELSE BigDecimalDigits(low)

\* value.toString() of a BigInt: its decimal digits, most significant first.
BigIntToString(v) ==
    IF v = <<>> THEN <<"0">> ELSE BigDecimalDigits(v)

\* v * m + c of a BigInt and two small numbers: digit by digit from the
\* right, with carry.
RECURSIVE BigTimesPlusFrom(_, _, _, _, _)
BigTimesPlusFrom(v, m, i, carry, out) ==
    IF i = 0
    THEN IF carry = 0 THEN out
         ELSE BigTimesPlusFrom(v, m, 0, carry \div 256,
                               <<carry % 256>> \o out)
    ELSE LET cur == v[i] * m + carry
         IN  BigTimesPlusFrom(v, m, i - 1, cur \div 256,
                              <<cur % 256>> \o out)

RECURSIVE TenTo(_)
TenTo(k) == IF k = 0 THEN 1 ELSE 10 * TenTo(k - 1)

\* The number the first n decimal digits of s denote, read six digits at a
\* time from the right.
RECURSIVE BigParseDecimal(_, _)
BigParseDecimal(s, n) ==
    IF n = 0 THEN <<>>
    ELSE LET k     == IF n < 6 THEN n ELSE 6
             front == BigParseDecimal(s, n - k)
             last  == ParseDigits(SubSeq(s, n - k + 1, n), 1, 0)
         IN  Normalize(BigTimesPlusFrom(front, TenTo(k), Len(front), last,
                                        <<>>))

\* The number ClickHouse stores in a UInt256 column for the decimal text s:
\* the number the text denotes, of which 256 bits are kept.
ParseUInt256(s) ==
    LET v == BigParseDecimal(s, Len(s))
    IN  Normalize(IF Len(v) > 32 THEN SubSeq(v, Len(v) - 31, Len(v)) ELSE v)

\* const blockData = res.data.blocks?.[0] || {}
BlockData(data) ==
    IF Len(data.blocks) > 0 THEN data.blocks[1] ELSE Null

\* const blockNumber = blockData.number || 0
BlockNumber(blockData) ==
    IF blockData = Null THEN 0 ELSE blockData.number

\* Mutant: without a block timestamp the row gets the epoch, not the clock.
BlockTimestamp_Epoch(blockData) ==
    IF blockData # Null /\ blockData.timestamp # 0
    THEN [of |-> "block", seconds |-> blockData.timestamp]
    ELSE [of |-> "block", seconds |-> 0]

\* const blockTimestamp = blockData.timestamp ? <the block's second, as
\* "YYYY-MM-DD hh:mm:ss"> : <the collector's clock, in the same format>
BlockTimestamp(blockData) ==
    IF blockData # Null /\ blockData.timestamp # 0
    THEN [of |-> "block", seconds |-> blockData.timestamp]
    ELSE [of |-> "clock", seconds |-> 0]

\* The row pushed for a decoded log and the raw log at the same index.
TransferRow(log, originalLog, blockNumber, blockTimestamp) ==
    [block_number     |-> blockNumber,
     block_timestamp  |-> blockTimestamp,
     log_index        |-> originalLog.logIndex,
     transaction_hash |-> originalLog.transactionHash,
     contract_address |-> originalLog.address,
     from_address     |-> log.indexed[1],
     to_address       |-> log.indexed[2],
     value            |-> BigIntToString(log.body[1])]

\* Mutant: the null entries are dropped from decodedLogs first, so the j-th
\* decoded log is paired with the j-th raw log.
ProcessLogs_Compacted(logs, i, blockNumber, blockTimestamp, batch) ==
    LET decoded == SelectSeq(logs, LAMBDA l : l.decoded # Null)
    IN  batch \o [j \in 1..Len(decoded) |->
                     TransferRow(decoded[j].decoded, logs[j], blockNumber,
                                 blockTimestamp)]

\* The for loop over decodedLogs: a null entry is skipped, every other one
\* appends its row to the batch.
RECURSIVE ProcessLogs(_, _, _, _, _)
ProcessLogs(logs, i, blockNumber, blockTimestamp, batch) ==
    IF i > Len(logs) THEN batch
    ELSE LET log == logs[i].decoded
             originalLog == logs[i]
         IN  ProcessLogs(logs, i + 1, blockNumber, blockTimestamp,
                 IF log = Null THEN batch
                 ELSE Append(batch, TransferRow(log, originalLog,
                                                blockNumber, blockTimestamp)))

\* totalTransferValue += value, over the decoded logs of a page.
RECURSIVE PageValue(_, _)
PageValue(logs, i) ==
    IF i > Len(logs) THEN <<>>
    ELSE BigAdd(IF logs[i].decoded = Null THEN <<>>
                ELSE logs[i].decoded.body[1],
                PageValue(logs, i + 1))

\* Mutant: the buffer counts as full at twice the capacity.
IsFull_Double(batch) == Len(batch) >= 2 * BATCH_SIZE

\* Mutant: the buffer counts as full only above the capacity.
IsFull_Strict(batch) == Len(batch) > BATCH_SIZE

\* Mutant: the buffer is flushed after every page that leaves a row in it.
IsFull_AnyRow(batch) == Len(batch) >= 1

\* if (transferBatch.length >= BATCH_SIZE)
IsFull(batch) == Len(batch) >= BATCH_SIZE

\* if (res.nextBlock) query.fromBlock = res.nextBlock
Advance(cursor, nextBlock) ==
    IF nextBlock # 0 THEN nextBlock ELSE cursor

\* What a setup command does to ClickHouse. A command that failed did
\* nothing; CREATE DATABASE IF NOT EXISTS makes the database exist; DROP
\* TABLE IF EXISTS removes the table with its rows; CREATE TABLE IF NOT
\* EXISTS adds the table, empty, unless it exists.
ApplyCommand(db, command, tableName) ==
    IF ~command.ok THEN db
    ELSE CASE command.query = "CREATE DATABASE IF NOT EXISTS" ->
                  [db EXCEPT !.database = TRUE]
           [] command.query = "DROP TABLE IF EXISTS" ->
                  [db EXCEPT !.tables =
                      [t \in DOMAIN db.tables \ {tableName} |-> db.tables[t]]]
           [] command.query = "CREATE TABLE IF NOT EXISTS" ->
                  IF tableName \in DOMAIN db.tables THEN db
                  ELSE [db EXCEPT !.tables =
                           [t \in DOMAIN db.tables \cup {tableName} |->
                               IF t = tableName THEN <<>> ELSE db.tables[t]]]

\* Mutant: a successful insert replaces the rows of the table.
ApplyInsert_Replace(db, tableName, transfers) ==
    IF Len(transfers) = 0 \/ tableName \notin DOMAIN db.tables THEN db
    ELSE [db EXCEPT !.tables[tableName] = transfers]

\* What clickhouse.insert({table, values}) does to ClickHouse when it
\* succeeds: the rows are appended to the table. (A call for a table that
\* does not exist cannot succeed.)
ApplyInsert(db, tableName, transfers) ==
    IF Len(transfers) = 0 \/ tableName \notin DOMAIN db.tables THEN db
    ELSE [db EXCEPT !.tables[tableName] = @ \o transfers]

\* ClickHouse after a whole initializeDatabase for the chain, every command
\* succeeding.
RECURSIVE InitializeDatabaseFrom(_, _, _)
InitializeDatabaseFrom(db, chainId, k) ==
    IF k > Len(SetupQueries) THEN db
    ELSE InitializeDatabaseFrom(
             ApplyCommand(db, SetupCommand(k, chainId, TRUE),
                          TableName(chainId)),
             chainId, k + 1)

InitializeDatabase(db, chainId) == InitializeDatabaseFrom(db, chainId, 1)

\* Mutant: an insert call carries at most BATCH_SIZE rows of the buffer.
InsertTransferBatch_Capped(calls, transfers, tableName, site, ok) ==
    IF Len(transfers) = 0 THEN calls
    ELSE Append(calls,
                [table |-> tableName,
                 rows  |-> IF Len(transfers) > BATCH_SIZE
                           THEN SubSeq(transfers, 1, BATCH_SIZE)
                           ELSE transfers,
                 site  |-> site, ok |-> ok])

\* insertTransferBatch: nothing is sent for an empty batch, else one
\* clickhouse.insert call, which returns or throws.
InsertTransferBatch(calls, transfers, tableName, site, ok) ==
    IF Len(transfers) = 0 THEN calls
    ELSE Append(calls, [table |-> tableName, rows |-> transfers,
                        site |-> site, ok |-> ok])

\* Mutant: the rejection of main is printed but the exit code is 0.
Fatal_ExitZero(what) ==
    /\ pc' = "faulted"
    /\ fault' = what
    /\ errorLog' = Append(errorLog, "Error:")
    /\ exitCode' = <<0>>
    /\ inflight' = {}

\* main().catch: the error is printed and the process exits with 1.
Fatal(what) ==
    /\ pc' = "faulted"
    /\ fault' = what
    /\ errorLog' = Append(errorLog, "Error:")
    /\ exitCode' = <<1>>
    /\ inflight' = {}

\* main's locals and the query before the loop, a source at its first
\* block, and nothing sent or printed yet.
Locals ==
    /\ fromBlock = 0
    /\ totalEvents = 0
    /\ totalTransferValue = <<>>
    /\ transferBatch = <<>>
    /\ res = Null
    /\ sink = <<>>
    /\ errorLog = <<>>
    /\ exitCode = <<>>
    /\ fault = "none"
    /\ srcNext = 0
    /\ pages = 0
    /\ delivered = <<>>

\* The token cache loader and the cleanup script are not running.
TokensIdle ==
    /\ tokenPc = "idle"
    /\ metadataFiles = <<>>
    /\ fileIndex = 0
    /\ entryIndex = 0
    /\ tokenBatch = <<>>
    /\ processedCount = 0
    /\ tokenSink = <<>>
    /\ fileResults = <<>>
    /\ totalTokens = 0
    /\ processedFiles = 0
    /\ createdTables = <<>>

CleanupIdle ==
    /\ cleanupPc = "idle"
    /\ cleanupChain = 0
    /\ cleanupCalls = <<>>
    /\ cleanupSuccess = FALSE
    /\ cleanupExit = <<>>

ScriptsIdle == TokensIdle /\ CleanupIdle

\* A row left in a table by an earlier run.
StaleRow ==
    [block_number     |-> 0,
     block_timestamp  |-> [of |-> "clock", seconds |-> 0],
     log_index        |-> 0,
     transaction_hash |-> <<"tx", -1>>,
     contract_address |-> "0xa",
     from_address     |-> 0,
     to_address       |-> 0,
     value            |-> <<"0">>]

\* ClickHouse after an earlier run for the default chain: the database
\* exists and the chain's table holds a row.
UsedStore ==
    [database |-> TRUE, tables |-> (TableName(DefaultChain) :> <<StaleRow>>)]

\* The state before the first statement runs, for the argument `arg`.
Start(arg) ==
    /\ pc = "start"
    /\ argv = arg
    /\ CHAIN_ID = 0
    /\ ddl = <<>>
    /\ inflight = {}

Init ==
    /\ Start(<<>>) \/ Start(<<"2">>)
    /\ Locals
    /\ store = UsedStore
    /\ ScriptsIdle

\* The module's top-level statements, up to the first await of
\* initializeDatabase: the chain id is read and validated; an unsupported
\* one ends the process with 1, else main starts and sends the first command.
ValidateChain ==
    /\ pc = "start"
    /\ CHAIN_ID' = ChainIdOf(argv)
    /\ IF CHAIN_ID' \in DOMAIN CHAIN_CONFIG
       THEN /\ pc' = "setup"
            /\ inflight' = {"command"}
            /\ UNCHANGED <<errorLog, exitCode, fault>>
       ELSE /\ pc' = "faulted"
            /\ fault' = "config"
            /\ errorLog' = Append(errorLog, "Unsupported chain ID:")
            /\ exitCode' = <<1>>
            /\ inflight' = {}
    /\ UNCHANGED <<fromBlock, totalEvents, totalTransferValue, transferBatch,
                   res, sink, srcNext, pages, delivered, argv, ddl>>
    /\ UNCHANGED <<store, scriptVars>>

\* Mutant: a failed setup command is logged and the setup goes on.
InitializeDatabaseFail_Ignored ==
    /\ pc = "setup"
    /\ ddl' = Append(ddl, SetupCommand(Len(ddl) + 1, CHAIN_ID, FALSE))
    /\ errorLog' = Append(errorLog, "Error:")
    /\ IF Len(ddl') = Len(SetupQueries)
       THEN pc' = "stream" /\ inflight' = {"stream"}
       ELSE pc' = "setup" /\ inflight' = {"command"}
    /\ UNCHANGED <<fromBlock, totalEvents, totalTransferValue, transferBatch,
                   res, sink, exitCode, fault, srcNext, pages, delivered,
                   argv, CHAIN_ID>>
    /\ UNCHANGED <<store, scriptVars>>

\* A command of initializeDatabase returns: the next one is sent, and after
\* the last one the stream is opened.
InitializeDatabaseOk ==
    /\ pc = "setup"
    /\ ddl' = Append(ddl, SetupCommand(Len(ddl) + 1, CHAIN_ID, TRUE))
    /\ IF Len(ddl') = Len(SetupQueries)
       THEN pc' = "stream" /\ inflight' = {"stream"}
       ELSE pc' = "setup" /\ inflight' = {"command"}
    /\ UNCHANGED <<fromBlock, totalEvents, totalTransferValue, transferBatch,
                   res, sink, errorLog, exitCode, fault, srcNext, pages,
                   delivered, argv, CHAIN_ID>>
    /\ UNCHANGED scriptVars
    /\ store' = ApplyCommand(store, Last(ddl'), TableName(CHAIN_ID))

\* A command of initializeDatabase throws.
InitializeDatabaseFail ==
    /\ pc = "setup"
    /\ ddl' = Append(ddl, SetupCommand(Len(ddl) + 1, CHAIN_ID, FALSE))
    /\ Fatal("setup")
    /\ UNCHANGED <<fromBlock, totalEvents, totalTransferValue, transferBatch,
                   res, sink, srcNext, pages, delivered, argv, CHAIN_ID>>
    /\ UNCHANGED <<store, scriptVars>>

\* await client.stream(query, {}) returns.
StreamOk ==
    /\ pc = "stream"
    /\ pc' = "recv"
    /\ UNCHANGED <<fromBlock, totalEvents, totalTransferValue, transferBatch,
                   res, sink, errorLog, exitCode, fault, srcNext, pages,
                   delivered>>
    /\ inflight' = {"recv"}
    /\ UNCHANGED <<argv, CHAIN_ID, ddl>>
    /\ UNCHANGED <<store, scriptVars>>

\* await client.stream(query, {}) throws.
StreamFail ==
    /\ pc = "stream"
    /\ Fatal("stream")
    /\ UNCHANGED <<fromBlock, totalEvents, totalTransferValue, transferBatch,
                   res, sink, srcNext, pages, delivered>>
    /\ UNCHANGED <<argv, CHAIN_ID, ddl>>
    /\ UNCHANGED <<store, scriptVars>>

\* Mutant: the insert of a full buffer is started but not awaited.
AfterPage_NoAwait(full, nextBlock) ==
    /\ pc' = "recv"
    /\ fromBlock' = Advance(fromBlock, nextBlock)
    /\ inflight' = IF full THEN {"insert", "recv"} ELSE {"recv"}

\* Mutant: the cursor is moved before the insert of a full buffer.
AfterPage_AdvanceFirst(full, nextBlock) ==
    /\ pc' = IF full THEN "inserting" ELSE "recv"
    /\ fromBlock' = Advance(fromBlock, nextBlock)
    /\ inflight' = IF full THEN {"insert"} ELSE {"recv"}

\* The end of the loop body: a full buffer is inserted and the insert
\* awaited; otherwise the cursor moves and the next page is awaited.
AfterPage(full, nextBlock) ==
    IF full
    THEN /\ pc' = "inserting"
         /\ fromBlock' = fromBlock
         /\ inflight' = {"insert"}
    ELSE /\ pc' = "recv"
         /\ fromBlock' = Advance(fromBlock, nextBlock)
         /\ inflight' = {"recv"}

\* The loop body for a page: its logs are counted and decoded, the rows
\* appended; a full buffer starts an insert, else the cursor moves and the
\* next page is requested. `honest` is where the source stands afterwards.
ReceivePage(page, hasData, honest) ==
    LET data == IF hasData
                THEN [logs |-> page.logs, blocks |-> page.blocks]
                ELSE Null
        blockData == BlockData(data)
        batch == IF data = Null THEN transferBatch
                 ELSE ProcessLogs(data.logs, 1, BlockNumber(blockData),
                                  BlockTimestamp(blockData), transferBatch)
    IN  /\ res' = [nextBlock |-> page.nextBlock]
        /\ totalEvents' = totalEvents + Len(page.logs)
        /\ totalTransferValue' =
               BigAdd(totalTransferValue, PageValue(page.logs, 1))
        /\ transferBatch' = batch
        /\ AfterPage(data # Null /\ IsFull(batch), page.nextBlock)
        /\ srcNext' = honest
        /\ pages' = pages + 1
        /\ delivered' = delivered \o page.logs
        /\ UNCHANGED <<sink, errorLog, exitCode, fault, argv, CHAIN_ID, ddl,
                       store, scriptVars>>

\* await stream.recv() returns a page, of any shape the source may deliver.
RecvPage ==
    /\ pc = "recv"
    /\ pages < MaxPages
    /\ \E shape \in PageShapes(MaxLogs - Len(delivered)),
          withBlocks \in BOOLEAN, hasData \in BOOLEAN :
        /\ Len(shape) > 0 => hasData
        /\ \E nextBlock \in ReportedPositions(HonestNext(shape, srcNext),
                                              fromBlock) :
            ReceivePage(Page(shape, srcNext, Len(delivered), withBlocks,
                             nextBlock),
                        hasData, HonestNext(shape, srcNext))

\* Mutant: after a successful insert the buffer keeps its last row.
InsertOk_KeepLast ==
    /\ pc = "inserting"
    /\ sink' = InsertTransferBatch(sink, transferBatch, TableName(CHAIN_ID),
                                   "batch", TRUE)
    /\ transferBatch' = <<Last(transferBatch)>>
    /\ fromBlock' = Advance(fromBlock, res.nextBlock)
    /\ pc' = "recv"
    /\ UNCHANGED <<totalEvents, totalTransferValue, res, errorLog, exitCode,
                   fault, srcNext, pages, delivered>>
    /\ inflight' = {"recv"}
    /\ UNCHANGED <<argv, CHAIN_ID, ddl>>
    /\ UNCHANGED scriptVars
    /\ store' = ApplyInsert(store, TableName(CHAIN_ID), transferBatch)

\* Mutant: the buffer is not cleared after a successful insert.
InsertOk_KeepBuffer ==
    /\ pc = "inserting"
    /\ sink' = InsertTransferBatch(sink, transferBatch, TableName(CHAIN_ID),
                                   "batch", TRUE)
    /\ fromBlock' = Advance(fromBlock, res.nextBlock)
    /\ pc' = "recv"
    /\ UNCHANGED <<totalEvents, totalTransferValue, transferBatch, res,
                   errorLog, exitCode, fault, srcNext, pages, delivered>>
    /\ inflight' = {"recv"}
    /\ UNCHANGED <<argv, CHAIN_ID, ddl>>
    /\ UNCHANGED scriptVars
    /\ store' = ApplyInsert(store, TableName(CHAIN_ID), transferBatch)

\* The mid-stream insert returns: the buffer is cleared, the cursor moves.
InsertOk ==
    /\ pc = "inserting"
    /\ sink' = InsertTransferBatch(sink, transferBatch, TableName(CHAIN_ID),
                                   "batch", TRUE)
    /\ transferBatch' = <<>>
    /\ fromBlock' = Advance(fromBlock, res.nextBlock)
    /\ pc' = "recv"
    /\ UNCHANGED <<totalEvents, totalTransferValue, res, errorLog, exitCode,
                   fault, srcNext, pages, delivered>>
    /\ inflight' = {"recv"}
    /\ UNCHANGED <<argv, CHAIN_ID, ddl>>
    /\ UNCHANGED scriptVars
    /\ store' = ApplyInsert(store, TableName(CHAIN_ID), transferBatch)

\* Mutant: the insert error is not caught and rejects main.
InsertFail_Fatal ==
    /\ pc = "inserting"
    /\ sink' = InsertTransferBatch(sink, transferBatch, TableName(CHAIN_ID),
                                   "batch", FALSE)
    /\ Fatal("sink")
    /\ UNCHANGED <<fromBlock, totalEvents, totalTransferValue, transferBatch,
                   res, srcNext, pages, delivered>>
    /\ UNCHANGED <<argv, CHAIN_ID, ddl>>
    /\ UNCHANGED <<store, scriptVars>>

\* Mutant: the buffer is cleared whether the insert returned or threw.
InsertFail_Drop ==
    /\ pc = "inserting"
    /\ sink' = InsertTransferBatch(sink, transferBatch, TableName(CHAIN_ID),
                                   "batch", FALSE)
    /\ errorLog' = Append(errorLog, "Error inserting batch:")
    /\ transferBatch' = <<>>
    /\ fromBlock' = Advance(fromBlock, res.nextBlock)
    /\ pc' = "recv"
    /\ UNCHANGED <<totalEvents, totalTransferValue, res, exitCode, fault,
                   srcNext, pages, delivered>>
    /\ inflight' = {"recv"}
    /\ UNCHANGED <<argv, CHAIN_ID, ddl>>
    /\ UNCHANGED <<store, scriptVars>>

\* Mutant: the insert that throws has already written its first row.
InsertFail_PartialWrite ==
    /\ pc = "inserting"
    /\ sink' = InsertTransferBatch(sink, transferBatch, TableName(CHAIN_ID),
                                   "batch", FALSE)
    /\ errorLog' = Append(errorLog, "Error inserting batch:")
    /\ fromBlock' = Advance(fromBlock, res.nextBlock)
    /\ pc' = "recv"
    /\ UNCHANGED <<totalEvents, totalTransferValue, transferBatch, res,
                   exitCode, fault, srcNext, pages, delivered>>
    /\ inflight' = {"recv"}
    /\ UNCHANGED <<argv, CHAIN_ID, ddl>>
    /\ UNCHANGED scriptVars
    /\ store' = ApplyInsert(store, TableName(CHAIN_ID),
                            SubSeq(transferBatch, 1, 1))

\* The mid-stream insert throws: the error is logged, the cursor moves.
InsertFail ==
    /\ pc = "inserting"
    /\ sink' = InsertTransferBatch(sink, transferBatch, TableName(CHAIN_ID),
                                   "batch", FALSE)
    /\ errorLog' = Append(errorLog, "Error inserting batch:")
    /\ fromBlock' = Advance(fromBlock, res.nextBlock)
    /\ pc' = "recv"
    /\ UNCHANGED <<totalEvents, totalTransferValue, transferBatch, res,
                   exitCode, fault, srcNext, pages, delivered>>
    /\ inflight' = {"recv"}
    /\ UNCHANGED <<argv, CHAIN_ID, ddl>>
    /\ UNCHANGED <<store, scriptVars>>

\* Mutant: the loop ends without the final insert.
RecvNull_NoDrain ==
    /\ pc = "recv"
    /\ res' = Null
    /\ pc' = "closing"
    /\ UNCHANGED <<fromBlock, totalEvents, totalTransferValue, transferBatch,
                   sink, errorLog, exitCode, fault, srcNext, pages, delivered>>
    /\ inflight' = {"close"}
    /\ UNCHANGED <<argv, CHAIN_ID, ddl>>
    /\ UNCHANGED <<store, scriptVars>>

\* Mutant: the final insert is awaited whether the buffer holds rows or not.
RecvNull_AlwaysDrain ==
    /\ pc = "recv"
    /\ res' = Null
    /\ pc' = "draining"
    /\ UNCHANGED <<fromBlock, totalEvents, totalTransferValue, transferBatch,
                   sink, errorLog, exitCode, fault, srcNext, pages, delivered>>
    /\ inflight' = {"insert"}
    /\ UNCHANGED <<argv, CHAIN_ID, ddl>>
    /\ UNCHANGED <<store, scriptVars>>

\* Mutant: on the sentinel the collector opens the stream again instead of
\* leaving the loop.
RecvNull_Restart ==
    /\ pc = "recv"
    /\ res' = Null
    /\ pc' = "stream"
    /\ UNCHANGED <<fromBlock, totalEvents, totalTransferValue, transferBatch,
                   sink, errorLog, exitCode, fault, srcNext, pages, delivered>>
    /\ inflight' = {"stream"}
    /\ UNCHANGED <<argv, CHAIN_ID, ddl>>
    /\ UNCHANGED <<store, scriptVars>>

\* await stream.recv() returns null: the loop ends; what is left in the
\* buffer is inserted.
RecvNull ==
    /\ pc = "recv"
    /\ res' = Null
    /\ pc' = IF Len(transferBatch) > 0 THEN "draining" ELSE "closing"
    /\ UNCHANGED <<fromBlock, totalEvents, totalTransferValue, transferBatch,
                   sink, errorLog, exitCode, fault, srcNext, pages, delivered>>
    /\ inflight' = IF Len(transferBatch) > 0 THEN {"insert"} ELSE {"close"}
    /\ UNCHANGED <<argv, CHAIN_ID, ddl>>
    /\ UNCHANGED <<store, scriptVars>>

\* Mutant: a source error ends the loop like the sentinel does.
RecvFail_Drain ==
    /\ pc = "recv"
    /\ fault' = "source"
    /\ errorLog' = Append(errorLog, "Error:")
    /\ pc' = IF Len(transferBatch) > 0 THEN "draining" ELSE "closing"
    /\ UNCHANGED <<fromBlock, totalEvents, totalTransferValue, transferBatch,
                   res, sink, exitCode, srcNext, pages, delivered>>
    /\ inflight' = IF Len(transferBatch) > 0 THEN {"insert"} ELSE {"close"}
    /\ UNCHANGED <<argv, CHAIN_ID, ddl>>
    /\ UNCHANGED <<store, scriptVars>>

\* await stream.recv() throws.
RecvFail ==
    /\ pc = "recv"
    /\ Fatal("source")
    /\ UNCHANGED <<fromBlock, totalEvents, totalTransferValue, transferBatch,
                   res, sink, srcNext, pages, delivered>>
    /\ UNCHANGED <<argv, CHAIN_ID, ddl>>
    /\ UNCHANGED <<store, scriptVars>>

\* The final insert returns.
DrainOk ==
    /\ pc = "draining"
    /\ sink' = InsertTransferBatch(sink, transferBatch, TableName(CHAIN_ID),
                                   "final", TRUE)
    /\ pc' = "closing"
    /\ UNCHANGED <<fromBlock, totalEvents, totalTransferValue, transferBatch,
                   res, errorLog, exitCode, fault, srcNext, pages, delivered>>
    /\ inflight' = {"close"}
    /\ UNCHANGED <<argv, CHAIN_ID, ddl>>
    /\ UNCHANGED scriptVars
    /\ store' = ApplyInsert(store, TableName(CHAIN_ID), transferBatch)

\* Mutant: an error of the final insert rejects main.
DrainFail_Fatal ==
    /\ pc = "draining"
    /\ sink' = InsertTransferBatch(sink, transferBatch, TableName(CHAIN_ID),
                                   "final", FALSE)
    /\ Fatal("sink")
    /\ UNCHANGED <<fromBlock, totalEvents, totalTransferValue, transferBatch,
                   res, srcNext, pages, delivered, argv, CHAIN_ID, ddl>>
    /\ UNCHANGED <<store, scriptVars>>

\* Mutant: the error of the final insert is swallowed without a message.
DrainFail_Unlogged ==
    /\ pc = "draining"
    /\ sink' = InsertTransferBatch(sink, transferBatch, TableName(CHAIN_ID),
                                   "final", FALSE)
    /\ pc' = "closing"
    /\ UNCHANGED <<fromBlock, totalEvents, totalTransferValue, transferBatch,
                   res, errorLog, exitCode, fault, srcNext, pages, delivered>>
    /\ inflight' = {"close"}
    /\ UNCHANGED <<argv, CHAIN_ID, ddl>>
    /\ UNCHANGED <<store, scriptVars>>

\* The final insert throws: the error is logged.
DrainFail ==
    /\ pc = "draining"
    /\ sink' = InsertTransferBatch(sink, transferBatch, TableName(CHAIN_ID),
                                   "final", FALSE)
    /\ errorLog' = Append(errorLog, "Error inserting final batch:")
    /\ pc' = "closing"
    /\ UNCHANGED <<fromBlock, totalEvents, totalTransferValue, transferBatch,
                   res, exitCode, fault, srcNext, pages, delivered>>
    /\ inflight' = {"close"}
    /\ UNCHANGED <<argv, CHAIN_ID, ddl>>
    /\ UNCHANGED <<store, scriptVars>>

\* await clickhouse.close() returns and main resolves.
Close ==
    /\ pc = "closing"
    /\ pc' = "done"
    /\ exitCode' = <<0>>
    /\ UNCHANGED <<fromBlock, totalEvents, totalTransferValue, transferBatch,
                   res, sink, errorLog, fault, srcNext, pages, delivered>>
    /\ inflight' = {}
    /\ UNCHANGED <<argv, CHAIN_ID, ddl>>
    /\ UNCHANGED <<store, scriptVars>>

\* The characters an argument is made of, and its greatest length.
ArgChars == {"0", "1", "2", "3", "a", "-"}

ArgStrings == UNION {[1..n -> ArgChars] : n \in 0..MaxArgLen}

\* The command line: any argument, a source that has nothing to deliver.
InitCli ==
    /\ \E arg \in ArgStrings : Start(arg)
    /\ Locals
    /\ store = UsedStore
    /\ ScriptsIdle

NextCli ==
    \/ ValidateChain
    \/ InitializeDatabaseOk
    \/ InitializeDatabaseFail
    \/ StreamOk
    \/ StreamFail
    \/ RecvNull
    \/ RecvFail
    \/ Close

SpecCli == InitCli /\ [][NextCli]_vars

\* Transfer values over the whole range of uint256: 0, 1, 255, 256,
\* 2^53 + 1, 2^64 - 1, 2^64, 2^255 + 12345 and 2^256 - 1.
WideValues ==
    {<<>>, <<1>>, <<255>>, <<1, 0>>,
     <<32, 0, 0, 0, 0, 0, 1>>,
     [i \in 1..8 |-> 255],
     [i \in 1..9 |-> IF i = 1 THEN 1 ELSE 0],
     [i \in 1..32 |-> IF i = 1 THEN 128 ELSE IF i = 31 THEN 48
                       ELSE IF i = 32 THEN 57 ELSE 0],
     [i \in 1..32 |-> 255]}

\* A page of one Transfer log of the next block, with the given value.
WidePage(value, first, id) ==
    LET page == Page(<<[good |-> TRUE, address |-> "0xa", newBlock |-> TRUE]>>,
                     first, id, TRUE, first + 1)
    IN  [page EXCEPT !.logs[1].decoded.body = <<value>>]

\* await stream.recv() returns a page with one transfer of a wide value.
RecvWidePage ==
    /\ pc = "recv"
    /\ pages < MaxPages
    /\ \E value \in WideValues :
          ReceivePage(WidePage(value, srcNext, Len(delivered)), TRUE,
                      srcNext + 1)

\* Runs without faults over transfers of wide values.
InitValue ==
    /\ Start(<<>>)
    /\ Locals
    /\ store = UsedStore
    /\ ScriptsIdle

NextValue ==
    \/ ValidateChain
    \/ InitializeDatabaseOk
    \/ StreamOk
    \/ RecvWidePage
    \/ InsertOk
    \/ RecvNull
    \/ DrainOk
    \/ Close

SpecValue == InitValue /\ [][NextValue]_vars

\* The pages of the end-to-end scenario: two Transfer logs of one block and
\* a log that does not decode, then one Transfer log of the next block.
ScenarioShapes ==
    <<  <<[good |-> TRUE, address |-> "0xa", newBlock |-> TRUE],
          [good |-> TRUE, address |-> "0xa", newBlock |-> FALSE],
          [good |-> FALSE, address |-> "0xa", newBlock |-> FALSE]>>,
        <<[good |-> TRUE, address |-> "0xa", newBlock |-> TRUE]>>  >>

\* await stream.recv() returns the next page of the scenario; the first
\* page starts at block 100 and every page reports the position after it.
RecvScenarioPage ==
    /\ pc = "recv"
    /\ pages < Len(ScenarioShapes)
    /\ \E withBlocks \in BOOLEAN :
          LET shape == ScenarioShapes[pages + 1]
              first == IF pages = 0 THEN 100 ELSE srcNext
          IN  ReceivePage(Page(shape, first, Len(delivered), withBlocks,
                               HonestNext(shape, first)),
                          TRUE, HonestNext(shape, first))

\* await stream.recv() returns null after the last page of the scenario.
RecvScenarioNull ==
    /\ pages = Len(ScenarioShapes)
    /\ RecvNull

\* The scenario on any of three chains, with every call free to fail.
InitE2E ==
    /\ \E arg \in {<<>>, <<"1">>, <<"1", "0">>} : Start(arg)
    /\ Locals
    /\ store = UsedStore
    /\ ScriptsIdle

NextE2E ==
    \/ ValidateChain
    \/ InitializeDatabaseOk
    \/ InitializeDatabaseFail
    \/ StreamOk
    \/ StreamFail
    \/ RecvScenarioPage
    \/ InsertOk
    \/ InsertFail
    \/ RecvScenarioNull
    \/ RecvFail
    \/ DrainOk
    \/ DrainFail
    \/ Close

SpecE2E == InitE2E /\ [][NextE2E]_vars

\* A termination signal arrives. The script installs no handler, so the
\* runtime ends the process at once, wherever main is waiting: the call in
\* flight is abandoned. (130 is what a shell reports for SIGINT.)
Signal ==
    /\ pc \notin {"start", "done", "faulted", "killed"}
    /\ pc' = "killed"
    /\ exitCode' = <<130>>
    /\ UNCHANGED <<fromBlock, totalEvents, totalTransferValue, transferBatch,
                   res, sink, errorLog, fault, srcNext, pages, delivered,
                   argv, CHAIN_ID, ddl, inflight>>
    /\ UNCHANGED <<store, scriptVars>>

\* The chains the script is run for when the setup is examined, the
\* arguments that select them (and one that selects none), and the states
\* ClickHouse may be in beforehand: no database, or a database in which each
\* chain's table is absent, empty or holds a row.
SetupChains == {1, DefaultChain}

SetupArgs == {<<>>, <<"1">>, <<"2">>}

PriorStores ==
    {[database |-> FALSE, tables |-> [t \in {} |-> <<>>]]}
    \cup {[database |-> TRUE,
           tables   |-> [t \in {TableName(c) :
                                   c \in {d \in SetupChains :
                                             f[d] # "absent"}} |->
                            IF f[t[2]] = "empty" THEN <<>>
                            ELSE <<StaleRow>>]] :
             f \in [SetupChains -> {"absent", "empty", "rows"}]}

\* The script is started again after a run has ended.
Rerun ==
    /\ pc \in {"done", "faulted"}
    /\ pc' = "start"
    /\ argv' \in SetupArgs
    /\ CHAIN_ID' = 0
    /\ ddl' = <<>>
    /\ inflight' = {}
    /\ fromBlock' = 0
    /\ totalEvents' = 0
    /\ totalTransferValue' = <<>>
    /\ transferBatch' = <<>>
    /\ res' = Null
    /\ sink' = <<>>
    /\ errorLog' = <<>>
    /\ exitCode' = <<>>
    /\ fault' = "none"
    /\ srcNext' = 0
    /\ pages' = 0
    /\ delivered' = <<>>
    /\ UNCHANGED <<store, scriptVars>>

\* Runs and reruns of the script against a source that has nothing to
\* deliver, from any prior state of ClickHouse.
InitSetup ==
    /\ \E arg \in SetupArgs : Start(arg)
    /\ Locals
    /\ store \in PriorStores
    /\ ScriptsIdle

NextSetup ==
    \/ ValidateChain
    \/ InitializeDatabaseOk
    \/ InitializeDatabaseFail
    \/ StreamOk
    \/ StreamFail
    \/ RecvNull
    \/ RecvFail
    \/ Close
    \/ Rerun

SpecSetup == InitSetup /\ [][NextSetup]_vars

\* The pages of a source that delivers two Transfer logs of one block per
\* page, three pages in all.
OutageShapes ==
    LET twoLogs == <<[good |-> TRUE, address |-> "0xa", newBlock |-> TRUE],
                     [good |-> TRUE, address |-> "0xb", newBlock |-> FALSE]>>
    IN  <<twoLogs, twoLogs, twoLogs>>

\* await stream.recv() returns the next of these pages.
RecvOutagePage ==
    /\ pc = "recv"
    /\ pages < Len(OutageShapes)
    /\ \E withBlocks \in BOOLEAN :
          LET shape == OutageShapes[pages + 1]
          IN  \E nextBlock \in ReportedPositions(HonestNext(shape, srcNext),
                                                 fromBlock) :
                  ReceivePage(Page(shape, srcNext, Len(delivered), withBlocks,
                                   nextBlock),
                              TRUE, HonestNext(shape, srcNext))

\* Runs over these pages in which any insert may fail.
NextOutage ==
    \/ ValidateChain
    \/ InitializeDatabaseOk
    \/ StreamOk
    \/ RecvOutagePage
    \/ InsertOk
    \/ InsertFail
    \/ RecvNull
    \/ DrainOk
    \/ DrainFail
    \/ Close

SpecOutage == InitValue /\ [][NextOutage]_vars

\* await stream.recv() returns a page that carries logs and no block entry.
RecvBarePage ==
    /\ pc = "recv"
    /\ pages < MaxPages
    /\ \E shape \in PageShapes(MaxLogs - Len(delivered)) :
        /\ Len(shape) > 0
        /\ \E nextBlock \in ReportedPositions(HonestNext(shape, srcNext),
                                              fromBlock) :
            ReceivePage(Page(shape, srcNext, Len(delivered), FALSE,
                             nextBlock),
                        TRUE, HonestNext(shape, srcNext))

\* Runs in which a page comes with its block entries or without them.
NextBare ==
    \/ ValidateChain
    \/ InitializeDatabaseOk
    \/ StreamOk
    \/ RecvBarePage
    \/ RecvOutagePage
    \/ InsertOk
    \/ RecvNull
    \/ DrainOk
    \/ Close

SpecBare == InitValue /\ [][NextBare]_vars

\* Runs over the pages of OutageShapes in which every awaited call may
\* throw: a setup command, stream, recv and every insert.
NextLive ==
    \/ NextOutage
    \/ InitializeDatabaseFail
    \/ StreamFail
    \/ RecvFail

\* The collector when every awaited call settles: whenever main is
\* suspended in a call (a command, stream, recv, an insert, close), the call
\* returns or throws, and main runs on. The source has finitely many pages,
\* after which recv returns the sentinel or throws.
SpecLive == InitValue /\ [][NextLive]_vars /\ WF_vars(NextLive)

Next ==
    \/ ValidateChain
    \/ InitializeDatabaseOk
    \/ InitializeDatabaseFail
    \/ StreamOk
    \/ StreamFail
    \/ RecvPage
    \/ InsertOk
    \/ InsertFail
    \/ RecvNull
    \/ RecvFail
    \/ DrainOk
    \/ DrainFail
    \/ Close

\* The collector with an operator who may send a termination signal.
NextSignal ==
    \/ Next
    \/ Signal

SpecSignal == Init /\ [][NextSignal]_vars

Spec == Init /\ [][Next]_vars

\* ------------------------------------------- populate_token_cache.js
\* The rows of a batch of the token cache loader (1000 in the source,
\* scaled down), and the greatest number of entries of a metadata file.
TokenBatchSize == 2

MaxEntries == 5

\* A metadata file: the part of its name between "tokenMetadata_" and
\* ".json", and for each entry whether it has what the loader requires.
\* The k-th entry of a file that lacks something lacks its name, its symbol
\* or a numeric decimals, by turns.
TokenEntry(k, good) ==
    [address  |-> <<"0x", "A">> \o NumberToString(k),
     name     |-> IF good \/ k % 3 # 0 THEN "Token" ELSE "",
     symbol   |-> IF good \/ k % 3 # 1 THEN "TKN" ELSE "",
     decimals |-> IF good \/ k % 3 # 2 THEN [type |-> "number", val |-> 18]
                  ELSE [type |-> "string", val |-> 18]]

MetadataFile(stem, goods) ==
    [stem    |-> stem,
     entries |-> [k \in 1..Len(goods) |-> TokenEntry(k, goods[k])]]

\* The listings of .cache after main's filter: a file for chain 1 with any
\* entries, alone, or before or after a small file for chain 10, or before
\* a file whose name gives no chain id ("tokenMetadata_a.json") or the
\* chain id 0.
TokenListings ==
    LET small == MetadataFile(<<"1", "0">>, <<TRUE>>)
        first == {MetadataFile(<<"1">>, goods) :
                     goods \in UNION {[1..n -> BOOLEAN] : n \in 0..MaxEntries}}
    IN  UNION {{<<f>>, <<f, small>>, <<small, f>>,
                <<MetadataFile(<<"a">>, <<TRUE>>), f>>,
                <<MetadataFile(<<"0">>, <<TRUE>>), f>>} : f \in first}

\* extractChainId(filename): the digits before ".json", as a number; <<>>
\* stands for null (the name does not match).
ExtractChainId(stem) ==
    IF stem # <<>> /\ \A i \in 1..Len(stem) : IsDigit(stem[i])
    THEN ParseInt(stem)
    ELSE <<>>

\* `token_metadata_${chainId}`
TokenTableName(chainId) == <<"token_metadata_", chainId>>

\* checksummedAddress.toLowerCase()
ToLowerCase(text) ==
    [i \in 1..Len(text) |-> IF text[i] = "A" THEN "a" ELSE text[i]]

\* The negation of the test that skips an entry: name and symbol are truthy
\* and decimals is a number.
IsValidToken(tokenData) ==
    /\ tokenData.name # ""
    /\ tokenData.symbol # ""
    /\ tokenData.decimals.type = "number"

\* The row pushed for an entry.
TokenRow(tokenData) ==
    [contract_address |-> ToLowerCase(tokenData.address),
     name             |-> tokenData.name,
     symbol           |-> tokenData.symbol,
     decimals         |-> tokenData.decimals.val]

\* Mutant: the batch is tested against the size before the push, so it is
\* inserted one entry later.
RECURSIVE TakeEntries_TestFirst(_, _, _, _)
TakeEntries_TestFirst(entries, taken, batch, count) ==
    IF Len(batch) > TokenBatchSize \/ taken = Len(entries)
    THEN [taken |-> taken, batch |-> batch, count |-> count]
    ELSE LET tokenData == entries[taken + 1]
         IN  IF ~IsValidToken(tokenData)
             THEN TakeEntries_TestFirst(entries, taken + 1, batch, count)
             ELSE TakeEntries_TestFirst(entries, taken + 1,
                      Append(batch, TokenRow(tokenData)), count + 1)

\* The for loop over the entries, from the entry after `taken` up to the
\* next await: it stops when a push has filled the batch or when the
\* entries are used up.
RECURSIVE TakeEntries(_, _, _, _)
TakeEntries(entries, taken, batch, count) ==
    IF Len(batch) >= TokenBatchSize \/ taken = Len(entries)
    THEN [taken |-> taken, batch |-> batch, count |-> count]
    ELSE LET tokenData == entries[taken + 1]
         IN  IF ~IsValidToken(tokenData)
             THEN TakeEntries(entries, taken + 1, batch, count)
             ELSE TakeEntries(entries, taken + 1,
                              Append(batch, TokenRow(tokenData)), count + 1)

\* insertTokenBatch: nothing is sent for an empty batch, else one
\* clickhouse.insert call, which returns or throws.
InsertTokenBatch(calls, tokens, tableName, ok) ==
    IF Len(tokens) = 0 THEN calls
    ELSE Append(calls, [table |-> tableName, rows |-> tokens, ok |-> ok])

\* ClickHouse after the first n commands of initializeChainTokenTable.
RECURSIVE InitializeChainTokenTable(_, _, _)
InitializeChainTokenTable(db, chainId, n) ==
    IF n = 0 THEN db
    ELSE ApplyCommand(InitializeChainTokenTable(db, chainId, n - 1),
                      [query |-> SetupQueries[n], ok |-> TRUE],
                      TokenTableName(chainId))

\* The file main's loop is at and its chain id.
CurrentFile == metadataFiles[fileIndex]

CurrentChainId == ExtractChainId(CurrentFile.stem)[1]

\* What processMetadataFile returns from its catch and from its try;
\* <<>> stands for the null tableName.
FileFailed ==
    [chainId |-> CurrentChainId, tokenCount |-> 0, tableName |-> <<>>]

FileCompleted(count) ==
    [chainId |-> CurrentChainId, tokenCount |-> count,
     tableName |-> TokenTableName(CurrentChainId)]

\* Mutant: an error of processMetadataFile ends main's loop.
ReturnToMain_StopOnFailure(result) ==
    /\ fileResults' = Append(fileResults, result)
    /\ totalTokens' = totalTokens + result.tokenCount
    /\ processedFiles' = processedFiles + 1
    /\ createdTables' =
           IF result.tableName # <<>>
           THEN Append(createdTables,
                       [chainId    |-> result.chainId,
                        tableName  |-> result.tableName,
                        tokenCount |-> result.tokenCount])
           ELSE createdTables
    /\ tokenPc' = IF result.tableName # <<>> THEN "files" ELSE "verify"

\* processMetadataFile returns and main's loop takes the result.
ReturnToMain(result) ==
    /\ fileResults' = Append(fileResults, result)
    /\ totalTokens' = totalTokens + result.tokenCount
    /\ processedFiles' = processedFiles + 1
    /\ createdTables' =
           IF result.tableName # <<>>
           THEN Append(createdTables,
                       [chainId    |-> result.chainId,
                        tableName  |-> result.tableName,
                        tokenCount |-> result.tokenCount])
           ELSE createdTables
    /\ tokenPc' = "files"

\* main's loop takes the next file: one whose name gives no chain id (or
\* the id 0) is passed over, for any other processMetadataFile is called
\* and sends its first command.
NextFile ==
    /\ tokenPc = "files"
    /\ fileIndex < Len(metadataFiles)
    /\ fileIndex' = fileIndex + 1
    /\ LET chainId == ExtractChainId(metadataFiles[fileIndex + 1].stem)
       IN  tokenPc' = IF chainId = <<>> \/ chainId[1] = 0 THEN "files"
                      ELSE "tokenSetup"
    /\ UNCHANGED <<metadataFiles, entryIndex, tokenBatch, processedCount,
                   tokenSink, fileResults, totalTokens, processedFiles,
                   createdTables>>
    /\ UNCHANGED <<collectorVars, store, cleanupVars>>

\* await initializeChainTokenTable(chainId) returns; readFile is awaited.
TokenSetupOk ==
    /\ tokenPc = "tokenSetup"
    /\ store' = InitializeChainTokenTable(store, CurrentChainId,
                                          Len(SetupQueries))
    /\ tokenPc' = "read"
    /\ UNCHANGED <<metadataFiles, fileIndex, entryIndex, tokenBatch,
                   processedCount, tokenSink, fileResults, totalTokens,
                   processedFiles, createdTables>>
    /\ UNCHANGED <<collectorVars, cleanupVars>>

\* One of the three commands throws, after those before it were carried
\* out: the catch of processMetadataFile returns the failure.
TokenSetupFail ==
    /\ tokenPc = "tokenSetup"
    /\ \E failing \in 1..Len(SetupQueries) :
           store' = InitializeChainTokenTable(store, CurrentChainId,
                                              failing - 1)
    /\ ReturnToMain(FileFailed)
    /\ UNCHANGED <<metadataFiles, fileIndex, entryIndex, tokenBatch,
                   processedCount, tokenSink>>
    /\ UNCHANGED <<collectorVars, cleanupVars>>

\* readFile returns and JSON.parse succeeds: the loop over the entries
\* starts with an empty batch.
ReadFileOk ==
    /\ tokenPc = "read"
    /\ tokenPc' = "entries"
    /\ entryIndex' = 0
    /\ tokenBatch' = <<>>
    /\ processedCount' = 0
    /\ UNCHANGED <<metadataFiles, fileIndex, tokenSink, fileResults,
                   totalTokens, processedFiles, createdTables>>
    /\ UNCHANGED <<collectorVars, store, cleanupVars>>

\* readFile or JSON.parse throws.
ReadFileFail ==
    /\ tokenPc = "read"
    /\ ReturnToMain(FileFailed)
    /\ UNCHANGED <<metadataFiles, fileIndex, entryIndex, tokenBatch,
                   processedCount, tokenSink>>
    /\ UNCHANGED <<collectorVars, store, cleanupVars>>

\* The loop over the entries runs to its next await: the insert of a full
\* batch, the insert of what is left after the last entry, or, with nothing
\* left, the return of the file's result.
ProcessEntries ==
    /\ tokenPc = "entries"
    /\ LET r == TakeEntries(CurrentFile.entries, entryIndex, tokenBatch,
                            processedCount)
       IN  /\ entryIndex' = r.taken
           /\ tokenBatch' = r.batch
           /\ processedCount' = r.count
           /\ IF Len(r.batch) >= TokenBatchSize
              THEN /\ tokenPc' = "tokenInsert"
                   /\ UNCHANGED <<fileResults, totalTokens, processedFiles,
                                  createdTables>>
              ELSE IF Len(r.batch) > 0
              THEN /\ tokenPc' = "tokenFinal"
                   /\ UNCHANGED <<fileResults, totalTokens, processedFiles,
                                  createdTables>>
              ELSE ReturnToMain(FileCompleted(r.count))
    /\ UNCHANGED <<metadataFiles, fileIndex, tokenSink>>
    /\ UNCHANGED <<collectorVars, store, cleanupVars>>

\* The insert of a full batch returns: the batch is cleared.
TokenInsertOk ==
    /\ tokenPc = "tokenInsert"
    /\ tokenSink' = InsertTokenBatch(tokenSink, tokenBatch,
                                     TokenTableName(CurrentChainId), TRUE)
    /\ store' = ApplyInsert(store, TokenTableName(CurrentChainId), tokenBatch)
    /\ tokenBatch' = <<>>
    /\ tokenPc' = "entries"
    /\ UNCHANGED <<metadataFiles, fileIndex, entryIndex, processedCount,
                   fileResults, totalTokens, processedFiles, createdTables>>
    /\ UNCHANGED <<collectorVars, cleanupVars>>

\* The insert of a full batch throws.
TokenInsertFail ==
    /\ tokenPc = "tokenInsert"
    /\ tokenSink' = InsertTokenBatch(tokenSink, tokenBatch,
                                     TokenTableName(CurrentChainId), FALSE)
    /\ ReturnToMain(FileFailed)
    /\ UNCHANGED <<metadataFiles, fileIndex, entryIndex, tokenBatch,
                   processedCount>>
    /\ UNCHANGED <<collectorVars, store, cleanupVars>>

\* The insert of the remaining tokens returns, and the file's result too.
TokenFinalOk ==
    /\ tokenPc = "tokenFinal"
    /\ tokenSink' = InsertTokenBatch(tokenSink, tokenBatch,
                                     TokenTableName(CurrentChainId), TRUE)
    /\ store' = ApplyInsert(store, TokenTableName(CurrentChainId), tokenBatch)
    /\ ReturnToMain(FileCompleted(processedCount))
    /\ UNCHANGED <<metadataFiles, fileIndex, entryIndex, tokenBatch,
                   processedCount>>
    /\ UNCHANGED <<collectorVars, cleanupVars>>

\* The insert of the remaining tokens throws.
TokenFinalFail ==
    /\ tokenPc = "tokenFinal"
    /\ tokenSink' = InsertTokenBatch(tokenSink, tokenBatch,
                                     TokenTableName(CurrentChainId), FALSE)
    /\ ReturnToMain(FileFailed)
    /\ UNCHANGED <<metadataFiles, fileIndex, entryIndex, tokenBatch,
                   processedCount>>
    /\ UNCHANGED <<collectorVars, store, cleanupVars>>

\* After the last file main prints the summary and goes on to verify the
\* tables of createdTables.
FilesDone ==
    /\ tokenPc = "files"
    /\ fileIndex = Len(metadataFiles)
    /\ tokenPc' = "verify"
    /\ UNCHANGED <<metadataFiles, fileIndex, entryIndex, tokenBatch,
                   processedCount, tokenSink, fileResults, totalTokens,
                   processedFiles, createdTables>>
    /\ UNCHANGED <<collectorVars, store, cleanupVars>>

\* The count queries have settled (an error of one is printed and passed
\* over) and clickhouse.close() has returned.
VerifyAndClose ==
    /\ tokenPc = "verify"
    /\ tokenPc' = "tokensDone"
    /\ UNCHANGED <<metadataFiles, fileIndex, entryIndex, tokenBatch,
                   processedCount, tokenSink, fileResults, totalTokens,
                   processedFiles, createdTables>>
    /\ UNCHANGED <<collectorVars, store, cleanupVars>>

\* The loader over any of the listings, the collector and the cleanup
\* script not running.
InitTokens ==
    /\ Start(<<>>)
    /\ Locals
    /\ store = UsedStore
    /\ CleanupIdle
    /\ tokenPc = "files"
    /\ metadataFiles \in TokenListings
    /\ fileIndex = 0
    /\ entryIndex = 0
    /\ tokenBatch = <<>>
    /\ processedCount = 0
    /\ tokenSink = <<>>
    /\ fileResults = <<>>
    /\ totalTokens = 0
    /\ processedFiles = 0
    /\ createdTables = <<>>

NextTokens ==
    \/ NextFile
    \/ TokenSetupOk
    \/ TokenSetupFail
    \/ ReadFileOk
    \/ ReadFileFail
    \/ ProcessEntries
    \/ TokenInsertOk
    \/ TokenInsertFail
    \/ TokenFinalOk
    \/ TokenFinalFail
    \/ FilesDone
    \/ VerifyAndClose

SpecTokens == InitTokens /\ [][NextTokens]_vars

\* --------------------------------------- scripts/cleanup_network_data.js
\* `erc20_transfers_${CHAIN_ID}` of the cleanup script.
CleanupTable == TableName(cleanupChain)

\* A query or command ClickHouse has received from the script: its text,
\* the strategy that sent it (0 for the checks before), what it names,
\* whether it succeeded and, for a query, whether it returned a row that
\* reports the table.
CleanupCall(query, strategy, target, ok, found) ==
    [query |-> query, strategy |-> strategy, target |-> target, ok |-> ok,
     found |-> found]

\* The table's name as strategy 3 writes it: the UUID read from
\* system.tables, in backquotes.
UuidOf(tableName) == <<"uuid">> \o tableName

\* ClickHouse without the table (dropped, or detached and out of sight).
WithoutTable(db, tableName) ==
    [db EXCEPT !.tables =
        [t \in DOMAIN db.tables \ {tableName} |-> db.tables[t]]]

\* catch (error) of cleanupNetworkData: process.exit(1); the finally block
\* does not run.
CleanupExit ==
    /\ cleanupPc' = "cleanupExited"
    /\ cleanupExit' = <<1>>

\* The EXISTS query returns: without the table the function returns and the
\* connection is closed, else the row count is queried.
ExistsOk ==
    /\ cleanupPc = "exists"
    /\ LET found == CleanupTable \in DOMAIN store.tables
       IN  /\ cleanupCalls' = Append(cleanupCalls,
                                     CleanupCall("EXISTS", 0, CleanupTable,
                                                 TRUE, found))
           /\ cleanupPc' = IF found THEN "count" ELSE "cleanupClosing"
    /\ UNCHANGED <<cleanupChain, cleanupSuccess, cleanupExit>>
    /\ UNCHANGED <<collectorVars, store, tokenVars>>

\* The EXISTS query throws.
ExistsFail ==
    /\ cleanupPc = "exists"
    /\ cleanupCalls' = Append(cleanupCalls,
                              CleanupCall("EXISTS", 0, CleanupTable, FALSE,
                                          FALSE))
    /\ CleanupExit
    /\ UNCHANGED <<cleanupChain, cleanupSuccess>>
    /\ UNCHANGED <<collectorVars, store, tokenVars>>

\* The count query returns or throws (its error is caught); the warning is
\* printed and the 5-second timer is started.
CountSettles ==
    /\ cleanupPc = "count"
    /\ \E ok \in BOOLEAN :
           cleanupCalls' = Append(cleanupCalls,
                                  CleanupCall("SELECT COUNT(*)", 0,
                                              CleanupTable, ok, ok))
    /\ cleanupPc' = "wait"
    /\ UNCHANGED <<cleanupChain, cleanupSuccess, cleanupExit>>
    /\ UNCHANGED <<collectorVars, store, tokenVars>>

\* The timer fires: cleanupSuccess is declared and DETACH is sent.
WaitElapsed ==
    /\ cleanupPc = "wait"
    /\ cleanupSuccess' = FALSE
    /\ cleanupPc' = "detach"
    /\ UNCHANGED <<cleanupChain, cleanupCalls, cleanupExit>>
    /\ UNCHANGED <<collectorVars, store, tokenVars>>

\* Strategy 1: DETACH TABLE returns; the DROP of the detached table is sent.
DetachOk ==
    /\ cleanupPc = "detach"
    /\ cleanupCalls' = Append(cleanupCalls,
                              CleanupCall("DETACH TABLE", 1, CleanupTable,
                                          TRUE, FALSE))
    /\ store' = WithoutTable(store, CleanupTable)
    /\ cleanupPc' = "dropDetached"
    /\ UNCHANGED <<cleanupChain, cleanupSuccess, cleanupExit>>
    /\ UNCHANGED <<collectorVars, tokenVars>>

\* DETACH TABLE throws: strategy 2 sends its DROP.
DetachFail ==
    /\ cleanupPc = "detach"
    /\ cleanupCalls' = Append(cleanupCalls,
                              CleanupCall("DETACH TABLE", 1, CleanupTable,
                                          FALSE, FALSE))
    /\ cleanupPc' = "drop"
    /\ UNCHANGED <<cleanupChain, cleanupSuccess, cleanupExit>>
    /\ UNCHANGED <<collectorVars, store, tokenVars>>

\* The DROP after the DETACH returns: strategy 1 has succeeded.
DropDetachedOk ==
    /\ cleanupPc = "dropDetached"
    /\ cleanupCalls' = Append(cleanupCalls,
                              CleanupCall("DROP TABLE IF EXISTS", 1,
                                          CleanupTable, TRUE, FALSE))
    /\ store' = WithoutTable(store, CleanupTable)
    /\ cleanupSuccess' = TRUE
    /\ cleanupPc' = "cleanupClosing"
    /\ UNCHANGED <<cleanupChain, cleanupExit>>
    /\ UNCHANGED <<collectorVars, tokenVars>>

\* Mutant: an error of the DROP after the DETACH ends the script.
DropDetachedFail_Fatal ==
    /\ cleanupPc = "dropDetached"
    /\ cleanupCalls' = Append(cleanupCalls,
                              CleanupCall("DROP TABLE IF EXISTS", 1,
                                          CleanupTable, FALSE, FALSE))
    /\ CleanupExit
    /\ UNCHANGED <<cleanupChain, cleanupSuccess>>
    /\ UNCHANGED <<collectorVars, store, tokenVars>>

\* The DROP after the DETACH throws: strategy 2 sends its DROP.
DropDetachedFail ==
    /\ cleanupPc = "dropDetached"
    /\ cleanupCalls' = Append(cleanupCalls,
                              CleanupCall("DROP TABLE IF EXISTS", 1,
                                          CleanupTable, FALSE, FALSE))
    /\ cleanupPc' = "drop"
    /\ UNCHANGED <<cleanupChain, cleanupSuccess, cleanupExit>>
    /\ UNCHANGED <<collectorVars, store, tokenVars>>

\* Strategy 2: the direct DROP returns before the 30-second timer.
DropOk ==
    /\ cleanupPc = "drop"
    /\ cleanupCalls' = Append(cleanupCalls,
                              CleanupCall("DROP TABLE IF EXISTS", 2,
                                          CleanupTable, TRUE, FALSE))
    /\ store' = WithoutTable(store, CleanupTable)
    /\ cleanupSuccess' = TRUE
    /\ cleanupPc' = "cleanupClosing"
    /\ UNCHANGED <<cleanupChain, cleanupExit>>
    /\ UNCHANGED <<collectorVars, tokenVars>>

\* The direct DROP throws, or the 30-second timer rejects first: strategy 3
\* queries system.tables.
DropFail ==
    /\ cleanupPc = "drop"
    /\ cleanupCalls' = Append(cleanupCalls,
                              CleanupCall("DROP TABLE IF EXISTS", 2,
                                          CleanupTable, FALSE, FALSE))
    /\ cleanupPc' = "uuid"
    /\ UNCHANGED <<cleanupChain, cleanupSuccess, cleanupExit>>
    /\ UNCHANGED <<collectorVars, store, tokenVars>>

\* Strategy 3: the UUID query returns; with a row the DROP by UUID is sent,
\* without one the cleanup counts as done.
UuidQueryOk ==
    /\ cleanupPc = "uuid"
    /\ LET found == CleanupTable \in DOMAIN store.tables
       IN  /\ cleanupCalls' = Append(cleanupCalls,
                                     CleanupCall("SELECT uuid", 3,
                                                 CleanupTable, TRUE, found))
           /\ cleanupSuccess' = ~found
           /\ cleanupPc' = IF found THEN "dropUuid" ELSE "cleanupClosing"
    /\ UNCHANGED <<cleanupChain, cleanupExit>>
    /\ UNCHANGED <<collectorVars, store, tokenVars>>

\* The UUID query throws: systemError is thrown on to the outer catch.
UuidQueryFail ==
    /\ cleanupPc = "uuid"
    /\ cleanupCalls' = Append(cleanupCalls,
                              CleanupCall("SELECT uuid", 3, CleanupTable,
                                          FALSE, FALSE))
    /\ CleanupExit
    /\ UNCHANGED <<cleanupChain, cleanupSuccess>>
    /\ UNCHANGED <<collectorVars, store, tokenVars>>

\* The DROP by UUID returns. It names a table called like the UUID, so the
\* chain's table stays as it is.
DropUuidOk ==
    /\ cleanupPc = "dropUuid"
    /\ cleanupCalls' = Append(cleanupCalls,
                              CleanupCall("DROP TABLE IF EXISTS", 3,
                                          UuidOf(CleanupTable), TRUE, FALSE))
    /\ cleanupSuccess' = TRUE
    /\ cleanupPc' = "cleanupClosing"
    /\ UNCHANGED <<cleanupChain, cleanupExit>>
    /\ UNCHANGED <<collectorVars, store, tokenVars>>

\* The DROP by UUID throws.
DropUuidFail ==
    /\ cleanupPc = "dropUuid"
    /\ cleanupCalls' = Append(cleanupCalls,
                              CleanupCall("DROP TABLE IF EXISTS", 3,
                                          UuidOf(CleanupTable), FALSE, FALSE))
    /\ CleanupExit
    /\ UNCHANGED <<cleanupChain, cleanupSuccess>>
    /\ UNCHANGED <<collectorVars, store, tokenVars>>

\* finally: clickhouse.close() returns; main prints its last line and the
\* process ends.
CleanupClose ==
    /\ cleanupPc = "cleanupClosing"
    /\ cleanupPc' = "cleanupDone"
    /\ cleanupExit' = <<0>>
    /\ UNCHANGED <<cleanupChain, cleanupCalls, cleanupSuccess>>
    /\ UNCHANGED <<collectorVars, store, tokenVars>>

\* The cleanup script for either chain, from any prior state of ClickHouse;
\* the collector and the loader are not running.
InitCleanup ==
    /\ Start(<<>>)
    /\ Locals
    /\ store \in PriorStores
    /\ TokensIdle
    /\ cleanupPc = "exists"
    /\ cleanupChain \in SetupChains
    /\ cleanupCalls = <<>>
    /\ cleanupSuccess = FALSE
    /\ cleanupExit = <<>>

NextCleanup ==
    \/ ExistsOk
    \/ ExistsFail
    \/ CountSettles
    \/ WaitElapsed
    \/ DetachOk
    \/ DetachFail
    \/ DropDetachedOk
    \/ DropDetachedFail
    \/ DropOk
    \/ DropFail
    \/ UuidQueryOk
    \/ UuidQueryFail
    \/ DropUuidOk
    \/ DropUuidFail
    \/ CleanupClose

SpecCleanup == InitCleanup /\ [][NextCleanup]_vars

\* ------------------------------------------------------------- claims
\* The well-formed logs delivered so far, the rows handed to the sink so far
\* (calls in call order, rows in batch order), and whether an insert failed.
GoodLogs == SelectSeq(delivered, LAMBDA l : l.decoded # Null)

SinkRows == Flatten([i \in 1..Len(sink) |-> sink[i].rows])

NoSinkFault == \A i \in 1..Len(sink) : sink[i].ok

CallSizes == [i \in 1..Len(sink) |-> Len(sink[i].rows)]

\* The row was built from this raw log.
RowOfLog(row, log) ==
    /\ row.transaction_hash = log.transactionHash
    /\ row.contract_address = log.address
    /\ row.log_index = log.logIndex

\* A mid-stream insert call fails in this step.
FailedFlush ==
    /\ pc = "inserting"
    /\ Len(sink') = Len(sink) + 1
    /\ ~Last(sink').ok

\* C1: Completeness. After a run that ended by the sentinel with no failed
\* insert, the rows handed to the sink are, in order, one row for each
\* well-formed log the source delivered: none missing, none added.
C1_Completeness ==
    (pc = "done" /\ NoSinkFault) =>
        /\ Len(SinkRows) = Len(GoodLogs)
        /\ \A i \in 1..Len(GoodLogs) : RowOfLog(SinkRows[i], GoodLogs[i])

C1_Witness ==
    /\ pc = "done"
    /\ NoSinkFault
    /\ pages = 2
    /\ Len(GoodLogs) = 2
    /\ Len(delivered) = 3
    /\ Len(SinkRows) = 2

\* C2: Skip counting. After a run over N well-formed and M malformed logs
\* the malformed ones are counted apart: the events counter holds N.
C2_SkipCounting ==
    pc = "done" => totalEvents = Len(GoodLogs)

\* C3: Batch sizing, as claimed. With K well-formed logs, K not a multiple
\* of the capacity, and no failed insert, the sink has received ceil(K/C)
\* calls, each of size C but the last, which has size K mod C.
C3_BatchSizing ==
    (/\ pc = "done"
     /\ NoSinkFault
     /\ Len(GoodLogs) = Len(delivered)
     /\ Len(delivered) % BATCH_SIZE # 0) =>
        /\ Len(sink) = (Len(delivered) + BATCH_SIZE - 1) \div BATCH_SIZE
        /\ \A i \in 1..(Len(sink) - 1) : CallSizes[i] = BATCH_SIZE
        /\ CallSizes[Len(sink)] = Len(delivered) % BATCH_SIZE

\* C3, amended: under the same conditions the sink has received at least one
\* and at most ceil(K/C) calls, which together carry K rows; every call but
\* the last has at least C rows and the last at least one.
C3_BatchSizingAmended ==
    (/\ pc = "done"
     /\ NoSinkFault
     /\ Len(GoodLogs) = Len(delivered)
     /\ Len(delivered) % BATCH_SIZE # 0) =>
        /\ Len(sink) >= 1
        /\ Len(sink) <= (Len(delivered) + BATCH_SIZE - 1) \div BATCH_SIZE
        /\ SumSeq(CallSizes) = Len(delivered)
        /\ \A i \in 1..(Len(sink) - 1) : CallSizes[i] >= BATCH_SIZE
        /\ CallSizes[Len(sink)] >= 1

C3_Witness ==
    /\ pc = "done"
    /\ NoSinkFault
    /\ Len(GoodLogs) = Len(delivered)
    /\ Len(delivered) % BATCH_SIZE # 0
    /\ Len(sink) = 1
    /\ CallSizes[1] > BATCH_SIZE

\* C4: Graceful drain. When the sentinel arrives while the buffer holds M
\* rows, 0 < M < C, the loop goes to the final insert with the buffer as it
\* is; the final insert is one call that carries exactly the buffer; and no
\* call follows it before the run is over.
C4_GracefulDrain ==
    [][/\ (/\ pc = "recv"
           /\ pc' \in {"draining", "closing"}
           /\ 0 < Len(transferBatch)
           /\ Len(transferBatch) < BATCH_SIZE) =>
              (pc' = "draining" /\ UNCHANGED <<transferBatch, sink>>)
       /\ pc = "draining" =>
              /\ pc' = "closing"
              /\ sink' = Append(sink, Last(sink'))
              /\ Last(sink').rows = transferBatch
       /\ pc \in {"closing", "done"} => sink' = sink]_vars

C4_Witness ==
    /\ pc = "done"
    /\ Len(sink) >= 1
    /\ Last(sink).site = "final"
    /\ Len(Last(sink).rows) < BATCH_SIZE
    /\ Last(sink).rows = transferBatch

\* C5: Cursor monotonicity. No step lowers the tracked cursor.
C5_CursorMonotonic ==
    [][fromBlock' >= fromBlock]_vars

\* C6: Cursor regression is fatal. A page that reports a next position below
\* the cursor rejects the run: the cursor keeps its value and no further page
\* is requested.
C6_RegressionFatal ==
    [][(/\ pc = "recv"
        /\ pages' = pages + 1
        /\ res'.nextBlock # 0
        /\ res'.nextBlock < fromBlock) =>
           (pc' = "faulted" /\ fromBlock' = fromBlock)]_vars

\* C7: Ordering. With every page carrying its block entries and no failed
\* insert, the rows of one contract reach the sink with non-decreasing
\* (block_number, log_index).
C7_Ordering ==
    (/\ NoSinkFault
     /\ \A i \in 1..Len(SinkRows) : SinkRows[i].block_timestamp.of = "block") =>
        \A i, j \in 1..Len(SinkRows) :
            (i < j /\ SinkRows[i].contract_address = SinkRows[j].contract_address)
            => \/ SinkRows[i].block_number < SinkRows[j].block_number
               \/ /\ SinkRows[i].block_number = SinkRows[j].block_number
                  /\ SinkRows[i].log_index <= SinkRows[j].log_index

\* C8: A sink fault does not stop the loop. When a mid-stream insert fails the
\* error is logged, the run is not rejected, the cursor moves to the position
\* the page reported, and the next page is requested.
C8_SinkFaultContinues ==
    [][FailedFlush =>
          /\ pc' = "recv"
          /\ fault' = "none"
          /\ exitCode' = <<>>
          /\ errorLog' = Append(errorLog, "Error inserting batch:")
          /\ res.nextBlock # 0 => fromBlock' = res.nextBlock]_vars

C8_Witness ==
    /\ Len(sink) >= 1
    /\ sink[1].site = "batch"
    /\ ~sink[1].ok
    /\ pages = 2
    /\ fromBlock = 2
    /\ pc = "recv"

C10_SourceFaultFatal ==
    [][/\ (fault = "none" /\ fault' = "source") =>
              /\ pc = "recv"
              /\ pc' = "faulted"
              /\ exitCode' = <<1>>
              /\ UNCHANGED <<sink, transferBatch, pages>>
       /\ fault = "source" =>
              UNCHANGED <<pc, sink, transferBatch, pages, exitCode>>]_vars

C10_Witness ==
    /\ pc = "faulted"
    /\ fault = "source"
    /\ exitCode = <<1>>
    /\ Len(transferBatch) > 0
    /\ sink = <<>>

C13_InvalidConfiguration ==
    (argv # <<>> /\ ~IsWhitelisted(argv) /\ pc # "start") =>
        /\ pc = "faulted"
        /\ fault = "config"
        /\ exitCode = <<1>>
        /\ ddl = <<>>
        /\ pages = 0

\* The decimal text of 2^255 + 12345.
WideExampleText ==
    <<
      "5", "7", "8", "9", "6", "0", "4", "4", "6", "1", "8", "6", "5", "8", 
      "0", "9", "7", "7", "1", "1", "7", "8", "5", "4", "9", "2", "5", "0", 
      "4", "3", "4", "3", "9", "5", "3", "9", "2", "6", "6", "3", "4", "9", 
      "9", "2", "3", "3", "2", "8", "2", "0", "2", "8", "2", "0", "1", "9", 
      "7", "2", "8", "7", "9", "2", "0", "0", "3", "9", "5", "6", "5", "6", 
      "4", "8", "3", "2", "3", "1", "3"
    >>

\* C14: Value precision. The value field of every row, in the buffer and
\* in the calls of the sink, read as a UInt256, is exactly the value the
\* decoder gave for the row's log, for values up to 2^256 - 1; the row of
\* a transfer of 2^255 + 12345 carries that number's decimal text.
C14_ValuePrecision ==
    /\ \A i \in 1..Len(SinkRows) :
          /\ ParseUInt256(SinkRows[i].value) = delivered[i].decoded.body[1]
          /\ ParseUInt256(WideExampleText) = delivered[i].decoded.body[1] =>
                 SinkRows[i].value = WideExampleText
    /\ \A i \in 1..Len(transferBatch) :
          \E k \in 1..Len(delivered) :
              /\ transferBatch[i].transaction_hash =
                     delivered[k].transactionHash
              /\ ParseUInt256(transferBatch[i].value) =
                     delivered[k].decoded.body[1]

C14_Witness ==
    /\ pc = "done"
    /\ Len(SinkRows) = MaxPages
    /\ SinkRows[1].value = WideExampleText
    /\ delivered[2].decoded.body[1] = [i \in 1..32 |-> 255]

\* What the sink and the cursor show at the end of the scenario when no
\* insert failed: two calls, of 2 rows and of 1 row, 3 rows, cursor 102.
E2E_SinkAndCursor ==
    (pc = "done" /\ NoSinkFault /\ BATCH_SIZE = 2) =>
        /\ CallSizes = <<2, 1>>
        /\ sink[1].site = "batch"
        /\ sink[2].site = "final"
        /\ Len(SinkRows) = 3
        /\ fromBlock = 102

\* C15: End-to-end scenario. With capacity 2 and the pages [2 valid logs of
\* block 100, 1 malformed log], [1 valid log of block 101], [sentinel], the
\* sink receives two insert calls, of 2 rows after page 1 and of 1 row at the
\* drain, 3 rows in all; after page 1 one log is counted as skipped (the
\* events counter holds the 2 well-formed ones); the final cursor is 102.
C15_EndToEnd ==
    /\ E2E_SinkAndCursor
    /\ (pages = 1 /\ BATCH_SIZE = 2) => Len(delivered) - totalEvents = 1

\* The three setup commands were sent in order and all succeeded.
SetupCompleted ==
    /\ Len(ddl) = Len(SetupQueries)
    /\ \A k \in 1..Len(ddl) : ddl[k].query = SetupQueries[k] /\ ddl[k].ok

\* C16: Setup precedes streaming. The stream is opened, a page requested or
\* received, or an insert attempted only after create database, drop table
\* and create table have all succeeded; after a failed setup command no page
\* is ever requested and no row is ever inserted.
C16_SetupPrecedesStreaming ==
    /\ (\/ pc \in {"stream", "recv", "inserting", "draining"}
        \/ inflight \cap {"stream", "recv", "insert"} # {}
        \/ pages > 0
        \/ sink # <<>>) => SetupCompleted
    /\ (\E k \in 1..Len(ddl) : ~ddl[k].ok) =>
           /\ pc = "faulted"
           /\ fault = "setup"
           /\ inflight = {}
           /\ pages = 0
           /\ sink = <<>>

C16_Witness ==
    /\ pc = "faulted"
    /\ fault = "setup"
    /\ Len(ddl) = Len(SetupQueries)
    /\ ~ddl[Len(ddl)].ok
    /\ pages = 0
    /\ sink = <<>>

\* C17: Backpressure and sequencing. At most one call to the source or the
\* sink is outstanding at any time; while an insert call is in flight no
\* page is requested or received, and the next request follows only in the
\* step in which the insert returns or fails.
C17_Sequencing ==
    /\ [](Cardinality(inflight) <= 1)
    /\ []("insert" \in inflight <=> pc \in {"inserting", "draining"})
    /\ [][/\ "insert" \in inflight => pages' = pages
          /\ ("recv" \in inflight' /\ "recv" \notin inflight) =>
                 /\ "insert" \notin inflight'
                 /\ \/ pc = "stream"
                    \/ pc = "inserting" /\ Len(sink') = Len(sink) + 1]_vars

C17_Witness ==
    /\ pc = "recv"
    /\ inflight = {"recv"}
    /\ pages = 1
    /\ Len(sink) = 1
    /\ ~sink[1].ok

\* Every row the collector has built: those handed to the sink and those
\* still in the buffer.
AllRows == SinkRows \o transferBatch

\* The delivered log a row was built for, by its transaction hash.
LogOfRow(row) ==
    CHOOSE k \in 1..Len(delivered) :
        delivered[k].transactionHash = row.transaction_hash

\* C18: Key uniqueness. The source emits each log once, with a distinct
\* (contract address, block number, log index); then, with block entries on
\* every page and no failed insert, no two rows handed to the sink carry the
\* same (contract_address, block_number, log_index).
C18_KeyUniqueness ==
    (/\ NoSinkFault
     /\ \A i \in 1..Len(SinkRows) : SinkRows[i].block_timestamp.of = "block")
    => \A i, j \in 1..Len(SinkRows) :
           i # j =>
               <<SinkRows[i].contract_address, SinkRows[i].block_number,
                 SinkRows[i].log_index>>
               # <<SinkRows[j].contract_address, SinkRows[j].block_number,
                   SinkRows[j].log_index>>

\* C19: Per-log block attribution. Every row built from a page that carries
\* its block entries has the number and the timestamp of the block that
\* contains the row's own log.
C19_BlockAttribution ==
    \A i \in 1..Len(AllRows) :
        AllRows[i].block_timestamp.of = "block" =>
            LET log == delivered[LogOfRow(AllRows[i])]
            IN  /\ AllRows[i].block_number = log.block
                /\ AllRows[i].block_timestamp.seconds =
                       BlockEntry(log.block).timestamp

\* C20: Decode failure is local. Every row, in the buffer or handed to the
\* sink, has the address, log index and transaction hash of one delivered
\* log that decoded, and the from, to and value the decoder gave for that
\* same log; a log that did not decode has no row, and every log that
\* decoded has one.
C20_DecodeFailureLocal ==
    /\ \A i \in 1..Len(AllRows) :
          \E k \in 1..Len(delivered) :
              /\ delivered[k].decoded # Null
              /\ AllRows[i].transaction_hash = delivered[k].transactionHash
              /\ AllRows[i].contract_address = delivered[k].address
              /\ AllRows[i].log_index = delivered[k].logIndex
              /\ AllRows[i].from_address = delivered[k].decoded.indexed[1]
              /\ AllRows[i].to_address = delivered[k].decoded.indexed[2]
              /\ AllRows[i].value =
                     BigIntToString(delivered[k].decoded.body[1])
    /\ \A k \in 1..Len(delivered) :
          delivered[k].decoded # Null <=>
              \E i \in 1..Len(AllRows) :
                  AllRows[i].transaction_hash = delivered[k].transactionHash

C20_Witness ==
    /\ pages = 1
    /\ Len(delivered) = 3
    /\ delivered[1].decoded # Null
    /\ delivered[2].decoded = Null
    /\ delivered[3].decoded # Null
    /\ delivered[3].address # delivered[1].address
    /\ Len(transferBatch) = 2

\* The phase of a run a control point belongs to.
Phase(at) ==
    CASE at \in {"start", "setup", "stream"} -> "Initializing"
      [] at \in {"recv", "inserting"}        -> "Streaming"
      [] at \in {"draining", "closing"}      -> "Draining"
      [] at = "done"                         -> "Terminated"
      [] at = "faulted"                      -> "Faulted"

C22_Cancellation ==
    [][(pc' = "killed" /\ pc # "killed") =>
           /\ "insert" \notin inflight
           /\ pc \notin {"inserting", "draining"}]_vars

\* C23: Table setup is idempotent drop-and-recreate. Whatever ClickHouse
\* held before (no database, the chain's table absent, empty or with rows),
\* once initializeDatabase has returned the database and the chain's table
\* exist and the table is empty; running the setup again on that state
\* changes nothing; and no setup step touches another chain's table.
C23_SetupIdempotent ==
    /\ [](pc = "stream" =>
             /\ store.database
             /\ TableName(CHAIN_ID) \in DOMAIN store.tables
             /\ store.tables[TableName(CHAIN_ID)] = <<>>
             /\ InitializeDatabase(store, CHAIN_ID) = store)
    /\ [][\A t \in DOMAIN store.tables :
              t # TableName(CHAIN_ID') =>
                  /\ t \in DOMAIN store'.tables
                  /\ store'.tables[t] = store.tables[t]]_vars

C23_Witness ==
    /\ pc = "stream"
    /\ CHAIN_ID = 1
    /\ DOMAIN store.tables = {TableName(1), TableName(DefaultChain)}
    /\ store.tables[TableName(1)] = <<>>
    /\ store.tables[TableName(DefaultChain)] = <<StaleRow>>

\* The rows of the insert calls that succeeded, in order.
AcceptedRows ==
    Flatten([i \in 1..Len(sink) |->
                IF sink[i].ok THEN sink[i].rows ELSE <<>>])

\* C24: No duplicate inserts. A successful mid-stream insert leaves the
\* buffer empty; while records can still be appended no row of the buffer is
\* in a successful insert call; and every decoded record is in at most one
\* successful insert call.
C24_NoDuplicateInserts ==
    /\ [][(pc = "inserting" /\ Len(sink') = Len(sink) + 1 /\ Last(sink').ok)
             => transferBatch' = <<>>]_vars
    /\ [](pc \in {"recv", "inserting", "draining"} =>
             \A i \in 1..Len(transferBatch), j \in 1..Len(AcceptedRows) :
                 transferBatch[i].transaction_hash
                     # AcceptedRows[j].transaction_hash)
    /\ [](\A i, j \in 1..Len(AcceptedRows) :
             i # j => AcceptedRows[i].transaction_hash
                          # AcceptedRows[j].transaction_hash)

C24_Witness ==
    /\ pc = "done"
    /\ Len(sink) = 2
    /\ ~sink[1].ok
    /\ sink[2].ok
    /\ Len(sink[2].rows) = MaxLogs
    /\ transferBatch = <<>>

\* C25: Flush-then-advance ordering. The cursor does not move in the step
\* that starts the insert of a full buffer; it is set to the position the
\* page reported (and stays where it is if the page reported none) in the
\* step in which that insert returns or fails, or, when no insert is
\* attempted, in the step that consumed the page.
C25_FlushThenAdvance ==
    [][/\ (pc = "recv" /\ pc' = "inserting") => fromBlock' = fromBlock
       /\ (pc = "inserting" /\ pc' = "recv") =>
              /\ Len(sink') = Len(sink) + 1
              /\ res.nextBlock # 0 => fromBlock' = res.nextBlock
              /\ res.nextBlock = 0 => fromBlock' = fromBlock
       /\ (pc = "recv" /\ pc' = "recv" /\ pages' = pages + 1) =>
              /\ sink' = sink
              /\ res'.nextBlock # 0 => fromBlock' = res'.nextBlock
              /\ res'.nextBlock = 0 => fromBlock' = fromBlock
       /\ fromBlock' # fromBlock =>
              \/ pc = "inserting" /\ pc' = "recv"
              \/ pc = "recv" /\ pc' = "recv" /\ pages' = pages + 1]_vars

\* After a failed flush the cursor is past records that are not persisted.
C25_Witness ==
    /\ pc = "recv"
    /\ pages = 1
    /\ Len(sink) = 1
    /\ ~sink[1].ok
    /\ fromBlock = res.nextBlock
    /\ fromBlock > 0
    /\ Len(transferBatch) >= BATCH_SIZE
    /\ \A i \in 1..Len(transferBatch) :
          transferBatch[i].block_number < fromBlock
    /\ store.tables[TableName(CHAIN_ID)] = <<>>

\* C26: Cursor drives requests. Whenever a page is requested, the position
\* the page will start at is the value of the cursor: 0 at the first
\* request, afterwards the position the last consumed page reported.
C26_CursorDrivesRequests ==
    inflight = {"recv"} => srcNext = fromBlock

\* The number of logs of a page of the source of SpecOutage.
OutagePageLogs == Len(OutageShapes[1])

PastSetup == pc \notin {"start", "setup"}

\* C28: Rows are append-only during a run. Once the setup is over no
\* further command is sent to ClickHouse; a step changes the sink's log
\* only by adding one insert call for the chain's table; the tables stay
\* the same and the rows of each only grow; and every insert call made
\* names the table the setup created.
C28_AppendOnly ==
    /\ [][PastSetup =>
              /\ ddl' = ddl
              /\ sink' # sink =>
                    /\ Len(sink') = Len(sink) + 1
                    /\ SubSeq(sink', 1, Len(sink)) = sink
                    /\ Last(sink').table = TableName(CHAIN_ID)
              /\ store'.database = store.database
              /\ DOMAIN store'.tables = DOMAIN store.tables
              /\ \A t \in DOMAIN store.tables :
                     IsPrefix(store.tables[t], store'.tables[t])]_vars
    /\ [](\A i \in 1..Len(sink) :
              /\ Len(ddl) = Len(SetupQueries)
              /\ Last(ddl).query = "CREATE TABLE IF NOT EXISTS"
              /\ Last(ddl).ok
              /\ Last(ddl).target = <<"token_intelligence">> \o sink[i].table
              /\ sink[i].table \in DOMAIN store.tables)

C28_Witness ==
    /\ pc = "done"
    /\ Len(sink) = 2
    /\ sink[1].ok /\ sink[2].ok
    /\ store.tables[TableName(CHAIN_ID)] = sink[1].rows \o sink[2].rows

\* C29: Termination. When every awaited call returns or throws and the
\* source ends with the sentinel or an error, the run stops in Terminated
\* or Faulted, whichever inserts fail on the way.
C29_Termination ==
    <>(Phase(pc) \in {"Terminated", "Faulted"})

C29_Witness ==
    /\ Phase(pc) = "Terminated"
    /\ Len(sink) = 2
    /\ ~sink[1].ok /\ ~sink[2].ok

\* The rows of the chain's table in ClickHouse.
Persisted == store.tables[TableName(CHAIN_ID)]

FinalInsertFailed ==
    /\ sink # <<>>
    /\ Last(sink).site = "final"
    /\ ~Last(sink).ok

C32_FlushSizes ==
    /\ [][Len(sink') = Len(sink) + 1 =>
              /\ Last(sink').rows = transferBatch
              /\ pc = "inserting" =>
                     /\ Last(sink').site = "batch"
                     /\ Len(Last(sink').rows) >= BATCH_SIZE
              /\ pc = "draining" => Last(sink').site = "final"
              /\ pc \in {"inserting", "draining"}]_vars
    /\ [](\A i \in 1..Len(sink) :
              /\ sink[i].site = "batch" => Len(sink[i].rows) >= BATCH_SIZE
              /\ Len(sink[i].rows) < BATCH_SIZE =>
                     (sink[i].site = "final" /\ i = Len(sink)))

C32_Witness ==
    /\ pc = "done"
    /\ Len(sink) = 2
    /\ sink[1].site = "batch"
    /\ Len(sink[1].rows) = BATCH_SIZE
    /\ sink[2].site = "final"
    /\ Len(sink[2].rows) = 1

\* C33: No empty insert. No call received by the sink has zero rows;
\* insertTransferBatch adds no call for an empty batch; and when recv
\* returns the sentinel while the buffer is empty, main goes straight to
\* close, awaits no insert, and the sink receives nothing more.
C33_NoEmptyInsert ==
    /\ [](\A i \in 1..Len(sink) : Len(sink[i].rows) > 0)
    /\ [](\A ok \in BOOLEAN, site \in {"batch", "final"} :
              InsertTransferBatch(sink, <<>>, TableName(CHAIN_ID), site, ok)
                  = sink)
    /\ [][(pc = "recv" /\ res' = Null /\ pc' # "faulted"
              /\ Len(transferBatch) = 0)
             => (pc' = "closing" /\ inflight' = {"close"} /\ sink' = sink)]_vars
    /\ [][(pc \in {"closing", "done"}) => sink' = sink]_vars

C33_Witness ==
    /\ pc = "done"
    /\ Len(sink) = 1
    /\ sink[1].site = "batch"
    /\ sink[1].ok
    /\ transferBatch = <<>>
    /\ Len(delivered) > 0

\* C34: Missing block context. A page with logs and no block entry is
\* processed like any other: main does not fail, the buffer keeps its rows
\* and gets one more row for each decodable log of the page, in order, and
\* each of these rows has block_number 0 and the collector's clock as
\* block_timestamp.
C34_MissingBlockContext ==
    [][RecvBarePage =>
          LET logs == SubSeq(delivered', Len(delivered) + 1, Len(delivered'))
              good == SelectSeq(logs, LAMBDA l : l.decoded # Null)
              rows == SubSeq(transferBatch', Len(transferBatch) + 1,
                             Len(transferBatch'))
          IN  /\ pc' \in {"recv", "inserting"}
              /\ fault' = "none"
              /\ IsPrefix(transferBatch, transferBatch')
              /\ Len(rows) = Len(good)
              /\ \A i \in 1..Len(rows) :
                     /\ RowOfLog(rows[i], good[i])
                     /\ rows[i].block_number = 0
                     /\ rows[i].block_timestamp.of = "clock"]_vars

\* A persisted row carries block 0 although its log lies in a later block.
C34_Witness ==
    /\ pc = "done"
    /\ \E i \in 1..Len(Persisted) :
           /\ Persisted[i].block_number = 0
           /\ Persisted[i].block_timestamp.of = "clock"
           /\ delivered[LogOfRow(Persisted[i])].block > 0

\* The entries of a metadata file that have a name, a symbol and a numeric
\* decimals, and the file of the listing that belongs to a table.
ValidEntries(file) ==
    SelectSeq(file.entries,
              LAMBDA e : e.name # "" /\ e.symbol # ""
                         /\ e.decimals.type = "number")

FileOfTable(tableName) ==
    CHOOSE k \in 1..Len(metadataFiles) :
        /\ ExtractChainId(metadataFiles[k].stem) # <<>>
        /\ TokenTableName(ExtractChainId(metadataFiles[k].stem)[1]) = tableName

CallsFor(tableName) == SelectSeq(tokenSink, LAMBDA c : c.table = tableName)

\* C35: Token cache batching. The buffer never holds more rows than the
\* batch size. For a file processMetadataFile has completed (no call of it
\* failed), with V valid entries: the sink has received ceil(V / size) calls
\* for its table, all successful, each of size rows except that the last
\* has what remains; in order the calls carry one row for each valid entry
\* and nothing else; and the file's token count is V.
C35_TokenCacheBatching ==
    /\ Len(tokenBatch) <= TokenBatchSize
    /\ \A n \in 1..Len(fileResults) :
           fileResults[n].tableName # <<>> =>
               LET valid == ValidEntries(
                                metadataFiles[FileOfTable(
                                    fileResults[n].tableName)])
                   V     == Len(valid)
                   calls == CallsFor(fileResults[n].tableName)
                   rows  == Flatten([i \in 1..Len(calls) |-> calls[i].rows])
               IN  /\ Len(calls) =
                          (V + TokenBatchSize - 1) \div TokenBatchSize
                   /\ \A i \in 1..Len(calls) :
                          /\ calls[i].ok
                          /\ i < Len(calls) =>
                                 Len(calls[i].rows) = TokenBatchSize
                          /\ i = Len(calls) =>
                                 Len(calls[i].rows) =
                                     V - TokenBatchSize * (Len(calls) - 1)
                   /\ Len(rows) = V
                   /\ \A i \in 1..V :
                          /\ rows[i].contract_address =
                                 ToLowerCase(valid[i].address)
                          /\ rows[i].name = valid[i].name
                          /\ rows[i].symbol = valid[i].symbol
                          /\ rows[i].decimals = valid[i].decimals.val
                   /\ fileResults[n].tokenCount = V

\* A file of MaxEntries entries, all but one of them valid, was loaded in
\* two or more calls.
C35_Witness ==
    /\ tokenPc = "tokensDone"
    /\ Len(metadataFiles) = 1
    /\ Len(metadataFiles[1].entries) = MaxEntries
    /\ Len(fileResults) = 1
    /\ fileResults[1].tokenCount = MaxEntries - 1
    /\ Len(tokenSink) >= 2
    /\ \A i \in 1..Len(tokenSink) : tokenSink[i].ok

\* The files of the listing whose name gives a chain id other than 0.
NamedFiles ==
    SelectSeq(metadataFiles,
              LAMBDA f : /\ ExtractChainId(f.stem) # <<>>
                         /\ ExtractChainId(f.stem)[1] # 0)

\* C36: Token cache error isolation. When processMetadataFile fails (in
\* the table setup, in reading the file or in an insert), main's loop goes
\* on with the files: the result has token count 0 and no table, the total
\* does not change and nothing is added to the verification list. At the
\* end every file with a chain id has a result, and the verification list
\* holds exactly the tables of the files that completed, also when a failed
\* file had batches inserted before.
C36_TokenCacheErrorIsolation ==
    /\ [][(Len(fileResults') = Len(fileResults) + 1
              /\ Last(fileResults').tableName = <<>>)
             => /\ tokenPc' = "files"
                /\ tokenPc \in {"tokenSetup", "read", "tokenInsert",
                                "tokenFinal"}
                /\ Last(fileResults').tokenCount = 0
                /\ totalTokens' = totalTokens
                /\ processedFiles' = processedFiles + 1
                /\ createdTables' = createdTables]_vars
    /\ [](tokenPc \in {"verify", "tokensDone"} =>
             /\ Len(fileResults) = Len(NamedFiles)
             /\ processedFiles = Len(NamedFiles)
             /\ \A n \in 1..Len(fileResults) :
                    fileResults[n].chainId =
                        ExtractChainId(NamedFiles[n].stem)[1]
             /\ createdTables =
                    LET done == SelectSeq(fileResults,
                                          LAMBDA r : r.tableName # <<>>)
                    IN  [i \in 1..Len(done) |->
                            [chainId    |-> done[i].chainId,
                             tableName  |-> done[i].tableName,
                             tokenCount |-> done[i].tokenCount]])

\* The first file failed after one of its batches was inserted, and the
\* file after it was loaded.
C36_Witness ==
    /\ tokenPc = "tokensDone"
    /\ Len(fileResults) = 2
    /\ fileResults[1].tableName = <<>>
    /\ fileResults[2].tableName # <<>>
    /\ fileResults[2].tokenCount = 1
    /\ Len(tokenSink) >= 2
    /\ tokenSink[1].ok
    /\ tokenSink[1].table = TokenTableName(fileResults[1].chainId)
    /\ Len(createdTables) = 1

\* The commands that detach or drop, and whether a strategy has sent a
\* call, has failed (a call of it threw), or is the one that succeeded.
IsDestructive(call) ==
    call.query \in {"DETACH TABLE", "DROP TABLE IF EXISTS"}

StrategyTried(k) ==
    \E i \in 1..Len(cleanupCalls) : cleanupCalls[i].strategy = k

StrategyFailed(k) ==
    \E i \in 1..Len(cleanupCalls) :
        cleanupCalls[i].strategy = k /\ ~cleanupCalls[i].ok

\* What the claim says of the commands: none before the existence check
\* reported the table and the timer fired; the strategies in the order 1,
\* 2, 3, with DETACH before the DROP of strategy 1 and the UUID query before
\* the DROP of strategy 3; a strategy only after the one before it failed;
\* nothing after a failure within a strategy but the next strategy, and
\* nothing at all after a success.
CleanupOrder ==
    /\ [][(cleanupPc' = "detach" /\ cleanupPc # "detach") =>
              cleanupPc = "wait"]_vars
    /\ [][cleanupCalls' # cleanupCalls =>
              /\ Len(cleanupCalls') = Len(cleanupCalls) + 1
              /\ SubSeq(cleanupCalls', 1, Len(cleanupCalls)) = cleanupCalls
              /\ ~cleanupSuccess
              /\ cleanupExit = <<>>
              /\ IsDestructive(Last(cleanupCalls')) =>
                     cleanupPc \in {"detach", "dropDetached", "drop",
                                    "dropUuid"}]_vars
    /\ [](\A i \in 1..Len(cleanupCalls) :
              LET call == cleanupCalls[i]
              IN  /\ IsDestructive(call) =>
                         /\ call.strategy \in 1..3
                         /\ cleanupCalls[1].query = "EXISTS"
                         /\ cleanupCalls[1].ok
                         /\ cleanupCalls[1].found
                  /\ \A j \in 1..(i - 1) :
                         /\ cleanupCalls[j].strategy <= call.strategy
                         /\ cleanupCalls[j].strategy = call.strategy =>
                                cleanupCalls[j].ok
                         /\ cleanupCalls[j].strategy \in 1..3
                                /\ cleanupCalls[j].strategy < call.strategy
                                => \E m \in j..(i - 1) :
                                       /\ cleanupCalls[m].strategy =
                                              cleanupCalls[j].strategy
                                       /\ ~cleanupCalls[m].ok
                  /\ call.strategy \in 2..3 =>
                         StrategyFailed(call.strategy - 1)
                  /\ (call.strategy = 1 /\ call.query # "DETACH TABLE") =>
                         (i > 1 /\ cleanupCalls[i - 1].query = "DETACH TABLE")
                  /\ (call.strategy = 3 /\ IsDestructive(call)) =>
                         (i > 1 /\ cleanupCalls[i - 1].query = "SELECT uuid"
                                /\ cleanupCalls[i - 1].found))

====
